---- MODULE Spec2Model ----
(***************************************************************************)
(* Model of the tool-input cascade (StringInputToolWrapper) and of the     *)
(* document persistence tool (SaveDocumentTool) of auto-dev-study-2nd.     *)
(*                                                                         *)
(* JavaScript strings are sequences of one-character strings; JavaScript   *)
(* values are tagged records (see Undef .. Obj).  Paths are sequences of   *)
(* segments, each segment a string.                                        *)
(***************************************************************************)
EXTENDS Integers, Sequences, FiniteSets, TLC

VARIABLES
  files,    \* the content of every file under the output root, by path
  dirs,     \* the directories that exist
  last,     \* the last call of SaveDocumentTool._call and its outcome
  prev,     \* the call before it (SaveSeqSpec)
  calls,    \* the number of calls so far
  tool,     \* the name of the wrapped tool (ParseSpec, CallSpec)
  payload,  \* the input given to _parseStringToJson
  parsed,   \* what _parseStringToJson handed back
  called,   \* the last call of an entry point of the wrapper (CallSpec)
  stamped,  \* the calls of getTimestampedFilename (StampSpec)
  conc,     \* the save calls of concurrent callers (ConcSpec)
  ctl       \* the AgentController and its callers (CtlSpec)

saveVars == <<files, dirs, last, prev, calls>>
parseVars == <<tool, payload, parsed>>
otherVars == <<called, stamped, conc, ctl>>
vars ==
  <<files, dirs, last, prev, calls, tool, payload, parsed, called, stamped,
    conc, ctl>>

(***************************************************************************)
(* Bounds of the model.                                                    *)
(***************************************************************************)
\* Date.now() is drawn from 1..MaxClock
MaxClock == 1
\* number of calls in one behaviour of Spec and of CallSpec
MaxCalls == 2
\* number of save calls in one behaviour of SaveSeqSpec
MaxSeqCalls == 3
\* every string over Alphabet of at most MaxLen characters is a payload
MaxLen == 4
\* a base name given to getTimestampedFilename is made of at most MaxPieces
\* pieces
MaxPieces == 2
\* number of callers that call the save tool at the same time
MaxCallers == 2
\* number of calls made to the AgentController in one behaviour
MaxOps == 3

(***************************************************************************)
(* JavaScript values.                                                      *)
(***************************************************************************)
Undef == [t |-> "undefined"]
Null == [t |-> "null"]
Bool(b) == [t |-> "bool", b |-> b]
Num(n) == [t |-> "num", n |-> n]
Str(s) == [t |-> "str", s |-> s]
Arr(a) == [t |-> "arr", a |-> a]
Obj(f) == [t |-> "obj", o |-> f]

EmptyObj == Obj(<<>>)

\* before any call of the wrapper, of getTimestampedFilename
NotCalled ==
  [entry |-> "none", input |-> Undef, arg |-> Undef, outcome |-> "none",
   text |-> <<>>]
NotStamped == [n |-> 0]
NoConc == <<>>
NoCtl == [ops |-> 0]

\* ToBoolean: what `!v` and `if (v)` test
Truthy(v) ==
  CASE v.t = "undefined" -> FALSE
    [] v.t = "null" -> FALSE
    [] v.t = "bool" -> v.b
    [] v.t = "num" -> v.n # 0
    [] v.t = "str" -> v.s # <<>>
    [] OTHER -> TRUE

\* property read obj.k / destructuring: a missing property, and any
\* property of a number, a boolean, a string or an array, reads undefined
Get(obj, k) ==
  IF obj.t = "obj" /\ k \in DOMAIN obj.o THEN obj.o[k] ELSE Undef

(***************************************************************************)
(* String constants.                                                       *)
(***************************************************************************)
S_output == <<"o", "u", "t", "p", "u", "t">>
S_requirements == <<"r", "e", "q", "u", "i", "r", "e", "m", "e", "n", "t", "s">>
S_designs == <<"d", "e", "s", "i", "g", "n", "s">>
S_sessions == <<"s", "e", "s", "s", "i", "o", "n", "s">>
S_diagrams == <<"d", "i", "a", "g", "r", "a", "m", "s">>
S_root == <<"r", "o", "o", "t">>
S_folderType == <<"f", "o", "l", "d", "e", "r", "T", "y", "p", "e">>
S_fileName == <<"f", "i", "l", "e", "N", "a", "m", "e">>
S_content == <<"c", "o", "n", "t", "e", "n", "t">>
S_overwrite == <<"o", "v", "e", "r", "w", "r", "i", "t", "e">>
S_document_ == <<"d", "o", "c", "u", "m", "e", "n", "t", "_">>
S_dotmd == <<".", "m", "d">>
S_dotdot == <<".", ".">>
S_dot == <<".">>

Digits == <<"0", "1", "2", "3", "4", "5", "6", "7", "8", "9">>

\* String(n) for a natural number
RECURSIVE NatToStr(_)
NatToStr(n) ==
  IF n < 10 THEN <<Digits[n + 1]>>
  ELSE NatToStr(n \div 10) \o <<Digits[(n % 10) + 1]>>

(***************************************************************************)
(* Characters and string helpers.                                          *)
(***************************************************************************)
DigitChars == {"0", "1", "2", "3", "4", "5", "6", "7", "8", "9"}
LowerChars ==
  {"a", "b", "c", "d", "e", "f", "g", "h", "i", "j", "k", "l", "m",
   "n", "o", "p", "q", "r", "s", "t", "u", "v", "w", "x", "y", "z"}
UpperChars ==
  {"A", "B", "C", "D", "E", "F", "G", "H", "I", "J", "K", "L", "M",
   "N", "O", "P", "Q", "R", "S", "T", "U", "V", "W", "X", "Y", "Z"}
\* the regular expression class \w
WordChars == DigitChars \cup LowerChars \cup UpperChars \cup {"_"}
\* the regular expression class \s and what trim() removes
WsChars == {" ", "\n", "\t", "\r"}
QuoteChars == {"\"", "'"}
\* the backquote character (a string cannot hold it literally)
BACKTICK == "BACKTICK"

\* the character at i, or "" past the end
At(s, i) == IF i >= 1 /\ i <= Len(s) THEN s[i] ELSE ""

\* s.substring(i - 1, j): the characters i..j
Sub(s, i, j) == IF i > j THEN <<>> ELSE SubSeq(s, i, j)

\* does s continue with the characters of w from index i on
StartsAt(s, i, w) ==
  /\ i >= 1
  /\ i + Len(w) - 1 <= Len(s)
  /\ \A k \in 1..Len(w) : s[i + k - 1] = w[k]

\* the first index >= i whose character is not in the class cs (Len(s)+1
\* when there is none)
RECURSIVE SkipIn(_, _, _)
SkipIn(s, i, cs) ==
  IF i <= Len(s) /\ s[i] \in cs THEN SkipIn(s, i + 1, cs) ELSE i

\* the first index >= i whose character is in the class cs (Len(s)+1 when
\* there is none)
RECURSIVE SkipNotIn(_, _, _)
SkipNotIn(s, i, cs) ==
  IF i <= Len(s) /\ s[i] \notin cs THEN SkipNotIn(s, i + 1, cs) ELSE i

\* the last index <= i whose character is not in cs (0 when there is none)
RECURSIVE SkipBackIn(_, _, _)
SkipBackIn(s, i, cs) ==
  IF i >= 1 /\ s[i] \in cs THEN SkipBackIn(s, i - 1, cs) ELSE i

\* the first index >= i at which w occurs in s, or 0
RECURSIVE IndexOfFrom(_, _, _)
IndexOfFrom(s, w, i) ==
  IF i + Len(w) - 1 > Len(s) THEN 0
  ELSE IF StartsAt(s, i, w) THEN i
  ELSE IndexOfFrom(s, w, i + 1)

\* s.trim()
Trim(s) == Sub(s, SkipIn(s, 1, WsChars), SkipBackIn(s, Len(s), WsChars))

UpperSeq ==
  <<"A", "B", "C", "D", "E", "F", "G", "H", "I", "J", "K", "L", "M",
    "N", "O", "P", "Q", "R", "S", "T", "U", "V", "W", "X", "Y", "Z">>
LowerSeq ==
  <<"a", "b", "c", "d", "e", "f", "g", "h", "i", "j", "k", "l", "m",
    "n", "o", "p", "q", "r", "s", "t", "u", "v", "w", "x", "y", "z">>

\* s.toLowerCase()
LowerOf(c) ==
  IF c \in UpperChars
    THEN LowerSeq[CHOOSE k \in 1..26 : UpperSeq[k] = c]
    ELSE c
ToLower(s) == [i \in 1..Len(s) |-> LowerOf(s[i])]

S_true == <<"t", "r", "u", "e">>
S_false == <<"f", "a", "l", "s", "e">>
S_null == <<"n", "u", "l", "l">>
S_json == <<"j", "s", "o", "n">>
S_markdown == <<"m", "a", "r", "k", "d", "o", "w", "n">>
S_md == <<"m", "d">>
S_fence == <<BACKTICK, BACKTICK, BACKTICK>>
S_input == <<"i", "n", "p", "u", "t">>
S_description == <<"d", "e", "s", "c", "r", "i", "p", "t", "i", "o", "n">>
S_requirementsAnalysis ==
  <<"r", "e", "q", "u", "i", "r", "e", "m", "e", "n", "t", "s",
    "A", "n", "a", "l", "y", "s", "i", "s">>

\* the decimal value of a string of digits
RECURSIVE DigitsValue(_, _)
DigitsValue(s, acc) ==
  IF s = <<>> THEN acc
  ELSE DigitsValue(Tail(s),
         acc * 10 + (CHOOSE d \in 0..9 : Digits[d + 1] = Head(s)))

(***************************************************************************)
(* JSON.parse.  The payloads of the model hold no fraction or exponent,    *)
(* so numbers are integers; of the escapes, \b and \u are not drawn.       *)
(***************************************************************************)
JFail == [ok |-> FALSE, v |-> Undef, i |-> 0]
JOk(v, i) == [ok |-> TRUE, v |-> v, i |-> i]

\* the character the escape \e stands for, <<>> when there is none
Unescape(e) ==
  CASE e = "\"" -> <<"\"">>
    [] e = "\\" -> <<"\\">>
    [] e = "/" -> <<"/">>
    [] e = "n" -> <<"\n">>
    [] e = "t" -> <<"\t">>
    [] e = "r" -> <<"\r">>
    [] e = "f" -> <<"\f">>
    [] OTHER -> <<>>

\* the characters of a string literal from i on, acc those read so far: up
\* to the closing quote; a control character in it is a syntax error
RECURSIVE JChars(_, _, _)
JChars(s, i, acc) ==
  IF i > Len(s) \/ s[i] \in {"\n", "\t", "\r", "\f"} THEN JFail
  ELSE IF s[i] = "\"" THEN JOk(Str(acc), i + 1)
  ELSE IF s[i] = "\\" THEN
    IF Unescape(At(s, i + 1)) = <<>> THEN JFail
    ELSE JChars(s, i + 2, acc \o Unescape(At(s, i + 1)))
  ELSE JChars(s, i + 1, Append(acc, s[i]))

\* a string literal whose opening quote is at i
JString(s, i) == JChars(s, i + 1, <<>>)

\* a number starting at i: -?(0|[1-9][0-9]*)
JNumber(s, i) ==
  LET neg == At(s, i) = "-"
      d == IF neg THEN i + 1 ELSE i
      e == SkipIn(s, d, DigitChars)
  IN IF e = d THEN JFail
     ELSE IF s[d] = "0"
       THEN JOk(Num(0), d + 1)
     ELSE JOk(Num((IF neg THEN -1 ELSE 1) * DigitsValue(Sub(s, d, e - 1), 0)), e)

RECURSIVE JValue(_, _)
RECURSIVE JMembers(_, _, _)
RECURSIVE JElements(_, _, _)

\* a value starting at or after i, white space around it skipped
JValue(s, i) ==
  LET j == SkipIn(s, i, WsChars)
      c == At(s, j)
      r == CASE c = "{" ->
                  LET k == SkipIn(s, j + 1, WsChars) IN
                    IF At(s, k) = "}" THEN JOk(EmptyObj, k + 1)
                    ELSE JMembers(s, k, <<>>)
             [] c = "[" ->
                  LET k == SkipIn(s, j + 1, WsChars) IN
                    IF At(s, k) = "]" THEN JOk(Arr(<<>>), k + 1)
                    ELSE JElements(s, k, <<>>)
             [] c = "\"" -> JString(s, j)
             [] c = "-" \/ c \in DigitChars -> JNumber(s, j)
             [] StartsAt(s, j, S_true) -> JOk(Bool(TRUE), j + 4)
             [] StartsAt(s, j, S_false) -> JOk(Bool(FALSE), j + 5)
             [] StartsAt(s, j, S_null) -> JOk(Null, j + 4)
             [] OTHER -> JFail
  IN IF r.ok THEN JOk(r.v, SkipIn(s, r.i, WsChars)) ELSE JFail

\* the members of an object from i on, acc the members read so far; a key
\* read again replaces the earlier one
JMembers(s, i, acc) ==
  LET j == SkipIn(s, i, WsChars) IN
  IF At(s, j) # "\"" THEN JFail
  ELSE
  LET key == JString(s, j) IN
  IF ~key.ok THEN JFail
  ELSE
  LET c == SkipIn(s, key.i, WsChars) IN
  IF At(s, c) # ":" THEN JFail
  ELSE
  LET val == JValue(s, c + 1) IN
  IF ~val.ok THEN JFail
  ELSE
  LET acc2 == (key.v.s :> val.v) @@ acc IN
    IF At(s, val.i) = "," THEN JMembers(s, val.i + 1, acc2)
    ELSE IF At(s, val.i) = "}" THEN JOk(Obj(acc2), val.i + 1)
    ELSE JFail

\* the elements of an array from i on
JElements(s, i, acc) ==
  LET val == JValue(s, i) IN
  IF ~val.ok THEN JFail
  ELSE IF At(s, val.i) = "," THEN JElements(s, val.i + 1, Append(acc, val.v))
  ELSE IF At(s, val.i) = "]" THEN JOk(Arr(Append(acc, val.v)), val.i + 1)
  ELSE JFail

\* JSON.parse(s): the value, or ok = FALSE where JSON.parse throws
JsonParse(s) ==
  LET r == JValue(s, 1) IN
    IF r.ok /\ r.i = Len(s) + 1 THEN r ELSE JFail

(***************************************************************************)
(* StringInputToolWrapper._parseStringToJson: the cleaned string.          *)
(***************************************************************************)
NoMatch == [found |-> FALSE, g |-> <<>>]
Match(g) == [found |-> TRUE, g |-> g]

\* /```(?:json)?(.+?)```/s with the opening fence at p
CodeBlockAt(s, p) ==
  LET a == p + 3
      b == IF StartsAt(s, a, S_json) THEN a + 4 ELSE a
      q1 == IndexOfFrom(s, S_fence, b + 1)
      q2 == IndexOfFrom(s, S_fence, a + 1)
  IN IF q1 > 0 THEN Match(Sub(s, b, q1 - 1))
     ELSE IF q2 > 0 THEN Match(Sub(s, a, q2 - 1))
     ELSE NoMatch

\* s.match(/```(?:json)?(.+?)```/s): the leftmost match from index i on
RECURSIVE CodeBlockFrom(_, _)
CodeBlockFrom(s, i) ==
  LET p == IndexOfFrom(s, S_fence, i) IN
    IF p = 0 THEN NoMatch
    ELSE IF CodeBlockAt(s, p).found THEN CodeBlockAt(s, p)
    ELSE CodeBlockFrom(s, p + 1)

\* .replace(/^[\s`'"]*/, '').replace(/[\s`'"]*$/, '')
StripChars == WsChars \cup QuoteChars \cup {BACKTICK}
StripEnds(s) ==
  Sub(s, SkipIn(s, 1, StripChars), SkipBackIn(s, Len(s), StripChars))

\* .replace(/'/g, '"')
DoubleQuotes(s) == [i \in 1..Len(s) |-> IF s[i] = "'" THEN "\"" ELSE s[i]]

\* .replace(/(\w+)(?=\s*:)/g, '"$1"') from index i on
RECURSIVE QuoteKeys(_, _)
QuoteKeys(s, i) ==
  IF i > Len(s) THEN <<>>
  ELSE IF s[i] \in WordChars THEN
    LET e == SkipIn(s, i, WordChars)
        c == SkipIn(s, e, WsChars)
    IN IF At(s, c) = ":"
         THEN <<"\"">> \o Sub(s, i, e - 1) \o <<"\"">> \o QuoteKeys(s, e)
         ELSE Sub(s, i, e - 1) \o QuoteKeys(s, e)
  ELSE <<s[i]>> \o QuoteKeys(s, i + 1)

\* .replace(/,(\s*[}\]])/g, '$1') from index i on
RECURSIVE DropTrailingCommas(_, _)
DropTrailingCommas(s, i) ==
  IF i > Len(s) THEN <<>>
  ELSE IF s[i] = "," THEN
    LET c == SkipIn(s, i + 1, WsChars) IN
      IF At(s, c) \in {"}", "]"}
        THEN Sub(s, i + 1, c) \o DropTrailingCommas(s, c + 1)
        ELSE <<",">> \o DropTrailingCommas(s, i + 1)
  ELSE <<s[i]>> \o DropTrailingCommas(s, i + 1)

\* jsonFixed without the extraction of the fenced code block
CleanInput_noFence(input) ==
  DropTrailingCommas(QuoteKeys(DoubleQuotes(StripEnds(input)), 1), 1)
\* jsonFixed: the string the second JSON.parse is given
CleanInput(input) ==
  LET block == CodeBlockFrom(input, 1)
      inner == IF block.found THEN Trim(block.g) ELSE input
      stripped == StripEnds(inner)
  IN DropTrailingCommas(QuoteKeys(DoubleQuotes(stripped), 1), 1)

(***************************************************************************)
(* _parseStringToJson: key-value extraction.                               *)
(***************************************************************************)
\* !isNaN(Number(value)) for a non-empty trimmed value: a signed integer
IsNumeric(v) ==
  LET body == IF At(v, 1) \in {"+", "-"} THEN Tail(v) ELSE v IN
    body # <<>> /\ \A k \in 1..Len(body) : body[k] \in DigitChars

NumberOf(v) ==
  IF At(v, 1) = "-" THEN 0 - DigitsValue(Tail(v), 0)
  ELSE IF At(v, 1) = "+" THEN DigitsValue(Tail(v), 0)
  ELSE DigitsValue(v, 0)

\* value.substring(1, value.length - 1): substring swaps its arguments
\* when the first is the larger
Unquote(v) == IF Len(v) = 1 THEN v ELSE Sub(v, 2, Len(v) - 1)

\* the conversion of one captured value
CoerceValue(raw) ==
  LET value == Trim(raw) IN
    IF ToLower(value) = S_true THEN Bool(TRUE)
    ELSE IF ToLower(value) = S_false THEN Bool(FALSE)
    ELSE IF IsNumeric(value) THEN Num(NumberOf(value))
    ELSE IF \/ (At(value, 1) = "\"" /\ At(value, Len(value)) = "\"")
            \/ (At(value, 1) = "'" /\ At(value, Len(value)) = "'")
      THEN Str(Unquote(value))
    ELSE Str(value)

NoKV == [found |-> FALSE, key |-> <<>>, raw |-> <<>>, next |-> 0]

\* /(\w+)\s*:\s*([^,]+)(?:,|$)/ with the key starting at i
KVMatchAt(s, i) ==
  IF At(s, i) \notin WordChars THEN NoKV
  ELSE
  LET e == SkipIn(s, i, WordChars)
      c == SkipIn(s, e, WsChars)
  IN
  IF At(s, c) # ":" THEN NoKV
  ELSE
  LET r == c + 1
      w == SkipIn(s, r, WsChars)
      g == IF w <= Len(s) /\ s[w] # "," THEN w
           ELSE IF w > r THEN w - 1
           ELSE 0
      m == SkipNotIn(s, g, {","})
  IN IF g = 0 THEN NoKV
     ELSE [found |-> TRUE, key |-> Sub(s, i, e - 1), raw |-> Sub(s, g, m - 1),
           next |-> IF m <= Len(s) THEN m + 1 ELSE m]

S_proto == <<"_", "_", "p", "r", "o", "t", "o", "_", "_">>

\* result[key] = value on the object literal result, value a boolean, a
\* number or a string: the setter of __proto__ ignores such a value and
\* no property is made
SetProperty(acc, key, value) ==
  IF key = S_proto THEN acc ELSE (key :> value) @@ acc

\* the exec loop: result[key] = value for every match from index i on
RECURSIVE KVScan(_, _, _)
KVScan(s, i, acc) ==
  IF i > Len(s) THEN acc
  ELSE LET m == KVMatchAt(s, i) IN
    IF m.found
      THEN KVScan(s, m.next, SetProperty(acc, m.key, CoerceValue(m.raw)))
      ELSE KVScan(s, i + 1, acc)

\* the object the loop builds
KeyValueExtract(input) == Obj(KVScan(input, 1, <<>>))

(***************************************************************************)
(* _parseStringToJson: the save_document extractor.                        *)
(***************************************************************************)
\* `document_${Date.now()}.md`
DefaultFileName(now) == S_document_ \o NatToStr(now) \o S_dotmd

\* (?:,|\s*\}|\s*$) at index j
FieldEndAt(s, j) ==
  \/ At(s, j) = ","
  \/ LET k == SkipIn(s, j, WsChars) IN k = Len(s) + 1 \/ s[k] = "}"

\* the first index >= q holding a quote that FieldEndAt follows, or 0
RECURSIVE ClosingQuote(_, _)
ClosingQuote(s, q) ==
  IF q > Len(s) THEN 0
  ELSE IF s[q] \in QuoteChars /\ FieldEndAt(s, q + 1) THEN q
  ELSE ClosingQuote(s, q + 1)

\* /content\s*:\s*["']([^]*?)["'](?:,|\s*\}|\s*$)/ with `content` at p
QuotedContentAt(s, p) ==
  LET c == SkipIn(s, p + Len(S_content), WsChars)
      o == SkipIn(s, c + 1, WsChars)
      q == ClosingQuote(s, o + 1)
  IN IF At(s, c) = ":" /\ At(s, o) \in QuoteChars /\ q > 0
       THEN Match(Sub(s, o + 1, q - 1))
       ELSE NoMatch

\* /content\s*:\s*([^,\}]+)(?:,|\s*\}|\s*$)/s with `content` at p
BareContentAt(s, p) ==
  LET c == SkipIn(s, p + Len(S_content), WsChars)
      r == c + 1
      w == SkipIn(s, r, WsChars)
      g == IF w <= Len(s) /\ s[w] \notin {",", "}"} THEN w
           ELSE IF w > r THEN w - 1
           ELSE 0
      m == SkipNotIn(s, g, {",", "}"})
  IN IF At(s, c) = ":" /\ g > 0 THEN Match(Sub(s, g, m - 1)) ELSE NoMatch

\* the group of /```(?:markdown|md)?\s*([^`]+)```/s when the text after the
\* optional tag starts at a
FencedBodyFrom(s, a) ==
  LET q == SkipNotIn(s, a, {BACKTICK})
      w == SkipIn(s, a, WsChars)
      g == IF w < q THEN w ELSE q - 1
  IN IF q > a /\ StartsAt(s, q, S_fence) THEN Match(Sub(s, g, q - 1)) ELSE NoMatch

\* the same pattern with the opening fence at p: the tag alternatives in
\* the order the pattern lists them, then no tag
FencedContentAt(s, p) ==
  LET a == p + 3 IN
    IF StartsAt(s, a, S_markdown) /\ FencedBodyFrom(s, a + 8).found
      THEN FencedBodyFrom(s, a + 8)
    ELSE IF StartsAt(s, a, S_md) /\ FencedBodyFrom(s, a + 2).found
      THEN FencedBodyFrom(s, a + 2)
    ELSE FencedBodyFrom(s, a)

\* input.match(contentPatterns[n]): the leftmost match from index i on
RECURSIVE ContentMatchFrom(_, _, _)
ContentMatchFrom(n, s, i) ==
  IF n = 4 THEN Match(s)
  ELSE
  LET p == IndexOfFrom(s, IF n = 3 THEN S_fence ELSE S_content, i)
      m == IF p = 0 THEN NoMatch
           ELSE IF n = 1 THEN QuotedContentAt(s, p)
           ELSE IF n = 2 THEN BareContentAt(s, p)
           ELSE FencedContentAt(s, p)
  IN IF p = 0 THEN NoMatch
     ELSE IF m.found THEN m
     ELSE ContentMatchFrom(n, s, p + 1)

\* the loop with the unquoted pattern tried before the quoted one
FirstContent_bareFirst(s, n) ==
  IF ContentMatchFrom(2, s, 1).found
    THEN [pattern |-> 2, content |-> Trim(ContentMatchFrom(2, s, 1).g)]
  ELSE IF ContentMatchFrom(1, s, 1).found
    THEN [pattern |-> 1, content |-> Trim(ContentMatchFrom(1, s, 1).g)]
  ELSE IF ContentMatchFrom(3, s, 1).found
    THEN [pattern |-> 3, content |-> Trim(ContentMatchFrom(3, s, 1).g)]
  ELSE [pattern |-> 4, content |-> Trim(s)]

\* the loop over contentPatterns: match[1].trim() of the first pattern
\* that matches, with the pattern's number
RECURSIVE FirstContent(_, _)
FirstContent(s, n) ==
  IF n > 4 THEN [pattern |-> 0, content |-> <<>>]
  ELSE IF ContentMatchFrom(n, s, 1).found
    THEN [pattern |-> n, content |-> Trim(ContentMatchFrom(n, s, 1).g)]
  ELSE FirstContent(s, n + 1)

\* /kw\s*:\s*["']?([^"',\}]+)["']?/ with the word kw at p
NamedFieldAt(s, kw, p) ==
  LET c == SkipIn(s, p + Len(kw), WsChars)
      r == c + 1
      w == SkipIn(s, r, WsChars)
      o == IF At(s, w) \in QuoteChars THEN w + 1 ELSE w
      m == SkipNotIn(s, o, QuoteChars \cup {",", "}"})
  IN IF At(s, c) # ":" THEN NoMatch
     ELSE IF m > o THEN Match(Sub(s, o, m - 1))
     ELSE IF w > r THEN Match(<<s[w - 1]>>)
     ELSE NoMatch

\* input.match(/kw\s*:\s*["']?([^"',\}]+)["']?/) from index i on
RECURSIVE NamedFieldFrom(_, _, _)
NamedFieldFrom(s, kw, i) ==
  LET p == IndexOfFrom(s, kw, i) IN
    IF p = 0 THEN NoMatch
    ELSE IF NamedFieldAt(s, kw, p).found THEN NamedFieldAt(s, kw, p)
    ELSE NamedFieldFrom(s, kw, p + 1)

\* input.match(/overwrite\s*:\s*(true|false)/i) from index i on, on the
\* lower-cased input ls
RECURSIVE OverwriteFrom(_, _)
OverwriteFrom(ls, i) ==
  LET p == IndexOfFrom(ls, S_overwrite, i)
      c == SkipIn(ls, p + Len(S_overwrite), WsChars)
      w == SkipIn(ls, c + 1, WsChars)
  IN IF p = 0 THEN NoMatch
     ELSE IF At(ls, c) = ":" /\ StartsAt(ls, w, S_true) THEN Match(S_true)
     ELSE IF At(ls, c) = ":" /\ StartsAt(ls, w, S_false) THEN Match(S_false)
     ELSE OverwriteFrom(ls, p + 1)

Return(v) == [kind |-> "return", v |-> v]
Throw == [kind |-> "throw", v |-> Undef]

\* folderType and fileName of the result: the capture, trimmed, over the
\* default set before the patterns are tried
PatternFields(folderTypeMatch, fileNameMatch, now) ==
  (S_folderType :>
     Str(IF folderTypeMatch.found THEN Trim(folderTypeMatch.g)
         ELSE S_output))
  @@ (S_fileName :>
     Str(IF fileNameMatch.found THEN Trim(fileNameMatch.g)
         ELSE DefaultFileName(now)))

\* result.overwrite is set only when the overwrite pattern matched
WithOverwrite(overwriteMatch, result) ==
  IF overwriteMatch.found
    THEN (S_overwrite :> Bool(overwriteMatch.g = S_true)) @@ result
    ELSE result

\* the final validation of the result
Validated(result) ==
  IF Trim(result[S_content].s) = <<>> THEN Throw ELSE Return(Obj(result))

\* result.content: the first capture, or the whole input when no
\* pattern gave one
ContentOrInput(content, input) ==
  IF content # <<>> THEN content ELSE input

\* the regular-expression part of the extractor, without the fallback of
\* an empty capture to the whole input
SaveDocumentByPatterns_noFallback(input, now) ==
  Validated(
    WithOverwrite(OverwriteFrom(ToLower(input), 1),
      (S_content :> Str(FirstContent(input, 1).content))
      @@ PatternFields(NamedFieldFrom(input, S_folderType, 1),
                       NamedFieldFrom(input, S_fileName, 1), now)))

\* the regular-expression part of the extractor: the content patterns, the
\* other parameters, the validation of the result
SaveDocumentByPatterns(input, now) ==
  Validated(
    WithOverwrite(OverwriteFrom(ToLower(input), 1),
      (S_content :> Str(ContentOrInput(FirstContent(input, 1).content, input)))
      @@ PatternFields(NamedFieldFrom(input, S_folderType, 1),
                       NamedFieldFrom(input, S_fileName, 1), now)))

\* the defaults given to an object that JSON.parse returned with a content
WithFolderType(o) ==
  IF S_folderType \in DOMAIN o /\ Truthy(o[S_folderType]) THEN o
  ELSE (S_folderType :> Str(S_output)) @@ o
WithFileName(o, now) ==
  IF S_fileName \in DOMAIN o /\ Truthy(o[S_fileName]) THEN o
  ELSE (S_fileName :> Str(DefaultFileName(now))) @@ o

\* the JSON attempt of the save_document branch: it returns only an
\* object that has a content
HasContent(j) ==
  j.ok /\ j.v.t = "obj" /\ Truthy(Get(j.v, S_content))

\* the save_document branch: the JSON attempt with its defaults, then the
\* patterns; an error thrown in it is thrown again with the format hint
SaveDocumentExtract(input, now) ==
  IF HasContent(JsonParse(input))
    THEN Return(Obj(WithFileName(WithFolderType(JsonParse(input).v.o), now)))
    ELSE SaveDocumentByPatterns(input, now)

(***************************************************************************)
(* _parseStringToJson: the cascade.                                        *)
(***************************************************************************)
\* what a strategy hands back, and the strategy it came from
Out(kind, v, via) == [kind |-> kind, v |-> v, via |-> via]

\* the three strategies that do not depend on the tool
StrictParse(input) == JsonParse(input)
CleanedParse(input) == JsonParse(CleanInput(input))
KeyValueFound(input) == DOMAIN KeyValueExtract(input).o # {}

\* the branch of the tool called name, for the tools that have one
HasExtractor(name) ==
  name \in {"requirement_analysis", "external_design", "save_document"}
\* the branches with the input trimmed before it is wrapped
ToolExtract_trimmed(name, input, now) ==
  CASE name = "requirement_analysis" ->
         Return(Obj(S_description :> Str(Trim(input))))
    [] name = "external_design" ->
         Return(Obj(S_requirementsAnalysis :> Str(Trim(input))))
    [] name = "save_document" -> SaveDocumentExtract(input, now)
ToolExtract(name, input, now) ==
  CASE name = "requirement_analysis" ->
         Return(Obj(S_description :> Str(input)))
    [] name = "external_design" ->
         Return(Obj(S_requirementsAnalysis :> Str(input)))
    [] name = "save_document" -> SaveDocumentExtract(input, now)
ToolOut(r) == Out(r.kind, r.v, "tool")

\* the statements inside the outer try, for a string that is not blank
\* the cascade with the branch of the tool tried before the strategies
Cascade_extractorFirst(name, input, now) ==
  IF HasExtractor(name) THEN ToolOut(ToolExtract(name, input, now))
  ELSE IF StrictParse(input).ok
    THEN Out("return", StrictParse(input).v, "strict")
  ELSE IF CleanedParse(input).ok
    THEN Out("return", CleanedParse(input).v, "cleaned")
  ELSE IF KeyValueFound(input)
    THEN Out("return", KeyValueExtract(input), "keyvalue")
  ELSE Out("return", Obj(S_input :> Str(input)), "fallback")
Cascade_toolBeforeKeyValue(name, input, now) ==
  IF StrictParse(input).ok
    THEN Out("return", StrictParse(input).v, "strict")
  ELSE IF CleanedParse(input).ok
    THEN Out("return", CleanedParse(input).v, "cleaned")
  ELSE IF HasExtractor(name) THEN ToolOut(ToolExtract(name, input, now))
  ELSE IF KeyValueFound(input)
    THEN Out("return", KeyValueExtract(input), "keyvalue")
  ELSE Out("return", Obj(S_input :> Str(input)), "fallback")
Cascade_trimmedFallback(name, input, now) ==
  IF StrictParse(input).ok
    THEN Out("return", StrictParse(input).v, "strict")
  ELSE IF CleanedParse(input).ok
    THEN Out("return", CleanedParse(input).v, "cleaned")
  ELSE IF KeyValueFound(input)
    THEN Out("return", KeyValueExtract(input), "keyvalue")
  ELSE IF HasExtractor(name) THEN ToolOut(ToolExtract(name, input, now))
  ELSE Out("return", Obj(S_input :> Str(Trim(input))), "fallback")
Cascade(name, input, now) ==
  IF StrictParse(input).ok
    THEN Out("return", StrictParse(input).v, "strict")
  ELSE IF CleanedParse(input).ok
    THEN Out("return", CleanedParse(input).v, "cleaned")
  ELSE IF KeyValueFound(input)
    THEN Out("return", KeyValueExtract(input), "keyvalue")
  ELSE IF HasExtractor(name) THEN ToolOut(ToolExtract(name, input, now))
  ELSE Out("return", Obj(S_input :> Str(input)), "fallback")

\* String(input) for an input that is neither a string nor an object
ToStr(v) ==
  CASE v.t = "bool" -> IF v.b THEN S_true ELSE S_false
    [] v.t = "num" ->
         IF v.n < 0 THEN <<"-">> \o NatToStr(0 - v.n) ELSE NatToStr(v.n)
    [] OTHER -> v.s

\* the outer catch: an error thrown inside the try becomes {}
Caught(c) ==
  IF c.kind = "throw" THEN Out("return", EmptyObj, "catch") ELSE c

\* _parseStringToJson without its blank-input return and with the outer
\* catch throwing the error on
ParseStringToJson_unguarded(name, input, now) ==
  IF input.t \in {"undefined", "null", "obj", "arr", "circular"}
    THEN Out("return", input, "passthrough")
  ELSE Cascade(name, ToStr(input), now)

\* _parseStringToJson with the blank-input return testing for the empty
\* string only, without trim()
ParseStringToJson_emptyOnly(name, input, now) ==
  IF input.t \in {"undefined", "null", "obj", "arr", "circular"}
    THEN Out("return", input, "passthrough")
  ELSE IF ToStr(input) = <<>> THEN Out("return", EmptyObj, "empty")
  ELSE Caught(Cascade(name, ToStr(input), now))

\* _parseStringToJson(input) of the wrapper of the tool called name
ParseStringToJson(name, input, now) ==
  IF input.t \in {"undefined", "null", "obj", "arr", "circular"}
    THEN Out("return", input, "passthrough")
  ELSE IF Trim(ToStr(input)) = <<>> THEN Out("return", EmptyObj, "empty")
  ELSE Caught(Cascade(name, ToStr(input), now))

(***************************************************************************)
(* StringInputToolWrapper._call: the input made a string.                  *)
(***************************************************************************)
\* an object that holds itself: typeof says 'object', JSON.stringify
\* throws a TypeError
Circular == [t |-> "circular"]

\* typeof v === 'object'
IsObjectType(v) == v.t \in {"obj", "arr", "null", "circular"}

\* a character of a string as JSON.stringify writes it
EscapeChar(c) ==
  CASE c = "\"" -> <<"\\", "\"">>
    [] c = "\\" -> <<"\\", "\\">>
    [] c = "\n" -> <<"\\", "n">>
    [] c = "\t" -> <<"\\", "t">>
    [] c = "\r" -> <<"\\", "r">>
    [] c = "\f" -> <<"\\", "f">>
    [] OTHER -> <<c>>

RECURSIVE Escaped(_)
Escaped(s) ==
  IF s = <<>> THEN <<>> ELSE EscapeChar(Head(s)) \o Escaped(Tail(s))

Quoted(s) == <<"\"">> \o Escaped(s) \o <<"\"">>

\* String(n) for an integer
IntToStr(n) == IF n < 0 THEN <<"-">> \o NatToStr(0 - n) ELSE NatToStr(n)

\* the properties JSON.stringify writes: those whose value is not undefined
Written(o) == {k \in DOMAIN o : o[k].t # "undefined"}

RECURSIVE JsonStringify(_)
RECURSIVE StringifyMembers(_, _)
RECURSIVE StringifyElements(_, _)

\* JSON.stringify(v) for a value that holds no cycle; undefined is met
\* only as an element of an array.
\* The properties are written one after the other; the order, which is
\* the insertion order in the program, does not change what JSON.parse
\* makes of the text.
JsonStringify(v) ==
  CASE v.t = "null" -> S_null
    [] v.t = "undefined" -> S_null
    [] v.t = "bool" -> IF v.b THEN S_true ELSE S_false
    [] v.t = "num" -> IntToStr(v.n)
    [] v.t = "str" -> Quoted(v.s)
    [] v.t = "arr" -> <<"[">> \o StringifyElements(v.a, 1) \o <<"]">>
    [] v.t = "obj" -> <<"{">> \o StringifyMembers(v.o, Written(v.o)) \o <<"}">>

\* "key":value of the properties ks of o, separated by commas
StringifyMembers(o, ks) ==
  IF ks = {} THEN <<>>
  ELSE LET k == CHOOSE x \in ks : TRUE IN
    Quoted(k) \o <<":">> \o JsonStringify(o[k])
    \o (IF ks = {k} THEN <<>> ELSE <<",">> \o StringifyMembers(o, ks \ {k}))

\* the elements of a from index i on, separated by commas; an element
\* that is undefined is written null
StringifyElements(a, i) ==
  IF i > Len(a) THEN <<>>
  ELSE JsonStringify(a[i])
       \o (IF i = Len(a) THEN <<>> ELSE <<",">> \o StringifyElements(a, i + 1))

S_undefined == <<"u", "n", "d", "e", "f", "i", "n", "e", "d">>
S_objectObject ==
  <<"[", "o", "b", "j", "e", "c", "t", " ", "O", "b", "j", "e", "c", "t", "]">>

\* does the conversion of the input throw: JSON.stringify of a cycle
ConversionThrows(v) == v = Circular

\* inputStr after the conversion, with String() used for a mapping too
InputString_viaString(v) ==
  IF v.t = "str" THEN v.s
  ELSE IF v.t = "obj" THEN S_objectObject
  ELSE IF IsObjectType(v) THEN JsonStringify(v)
  ELSE IF v.t = "undefined" THEN S_undefined
  ELSE ToStr(v)

\* inputStr after the conversion: a string as it is, an object through
\* JSON.stringify, anything else through String()
InputString(v) ==
  IF v.t = "str" THEN v.s
  ELSE IF IsObjectType(v) THEN JsonStringify(v)
  ELSE IF v.t = "undefined" THEN S_undefined
  ELSE ToStr(v)

(***************************************************************************)
(* The inputs of _parseStringToJson.                                       *)
(***************************************************************************)
\* the tools of analysis-tools.js, by name
Tools ==
  {"requirement_analysis", "external_design", "save_document",
   "generate_uml", "generate_layout"}

Alphabet == {"{", "}", "\"", "'", ":", ",", "a", "1", " "}

Strings(n) == UNION {[1..k -> Alphabet] : k \in 0..n}

P_null ==
  <<"n", "u", "l", "l">>
P_true ==
  <<"t", "r", "u", "e">>
P_array ==
  <<"[", "1", "]">>
P_object ==
  <<"{", "\"", "a", "\"", ":", "1", "}">>
P_bareKeys ==
  <<"{", "a", ":", "1", "}">>
P_singleQuoted ==
  <<"{", "'", "a", "'", ":", "1", ",", "}">>
P_fencedJson ==
  <<BACKTICK, BACKTICK, BACKTICK, "j", "s", "o", "n", "\n", "{", "\"", "a",
    "\"", ":", "1", "}", "\n", BACKTICK, BACKTICK, BACKTICK>>
P_fenced ==
  <<BACKTICK, BACKTICK, BACKTICK, "\n", "{", "\"", "a", "\"", ":", "1",
    "}", "\n", BACKTICK, BACKTICK, BACKTICK>>
P_fencedBare ==
  <<BACKTICK, BACKTICK, BACKTICK, "j", "s", "o", "n", "\n", "{", "a", ":",
    "1", "}", "\n", BACKTICK, BACKTICK, BACKTICK>>
P_helloFile ==
  <<"c", "o", "n", "t", "e", "n", "t", ":", " ", "\"", "H", "e", "l", "l",
    "o", "\"", ",", " ", "f", "i", "l", "e", "N", "a", "m", "e", ":", " ",
    "\"", "x", ".", "m", "d", "\"">>
P_prose ==
  <<"s", "a", "v", "e", " ", "t", "h", "i", "s">>
P_fencedText ==
  <<BACKTICK, BACKTICK, BACKTICK, "m", "d", "\n", "a", "b", "c", "\n",
    BACKTICK, BACKTICK, BACKTICK>>
P_contentObject ==
  <<"{", "\"", "c", "o", "n", "t", "e", "n", "t", "\"", ":", "\"", "X",
    "\"", "}">>
P_emptyContent ==
  <<"c", "o", "n", "t", "e", "n", "t", ":", " ", "\"", "\"">>
P_protoKey ==
  <<"_", "_", "p", "r", "o", "t", "o", "_", "_", ":", "1">>
P_upperTrue ==
  <<"a", ":", "T", "R", "U", "E">>
P_lastWins ==
  <<"a", ":", "1", ",", "a", ":", " ", "\"", "a", "\"", ",", "b", ":", "'">>
P_protoQuoted ==
  S_proto \o <<":">> \o S_content \o <<":", "\"", "a", "\"">>
P_protoBare ==
  S_proto \o <<":">> \o S_content \o <<":", " ", "a", "b", " ">>
P_fenceThenQuoted ==
  <<BACKTICK, BACKTICK, BACKTICK, "b", BACKTICK, BACKTICK, BACKTICK, " ">>
  \o P_protoQuoted
P_protoFileName ==
  S_proto \o <<":">> \o S_fileName
  \o <<":", " ", "\"", "f", ".", "m", "d", "\"">>
  \o <<" ">> \o S_overwrite \o <<":", "T", "r", "u", "e">>
P_blankFence ==
  <<BACKTICK, BACKTICK, BACKTICK, " ", BACKTICK, BACKTICK, BACKTICK>>
P_backquoted ==
  <<BACKTICK, "1", BACKTICK>>

ScenarioPayloads ==
  {P_null, P_true, P_array, P_object, P_bareKeys, P_singleQuoted, P_fencedJson, P_fenced, P_fencedBare, P_helloFile, P_prose, P_fencedText, P_contentObject,
   P_emptyContent, P_protoKey, P_upperTrue, P_lastWins,
   P_protoQuoted, P_protoBare, P_fenceThenQuoted, P_protoFileName,
   P_blankFence, P_backquoted}

\* strings, and the values that are not strings
Payloads ==
  {Str(s) : s \in Strings(MaxLen) \cup ScenarioPayloads}
  \cup {Undef, Null, Num(1), Bool(TRUE), Obj(<<"a">> :> Num(1))}

NotParsed == [kind |-> "none", v |-> Undef, via |-> "none", now |-> 0]

(***************************************************************************)
(* config.app.outputDirs and path.join.                                    *)
(***************************************************************************)
\* outputDir = path.join(rootDir, 'output'), written relative to rootDir
OutputRoot == <<S_output>>

outputDirs ==
  (S_root :> OutputRoot)
  @@ (S_requirements :> OutputRoot \o <<S_requirements>>)
  @@ (S_designs :> OutputRoot \o <<S_designs>>)
  @@ (S_sessions :> OutputRoot \o <<S_sessions>>)
  @@ (S_diagrams :> OutputRoot \o <<S_diagrams>>)

\* s.split('/')
RECURSIVE SplitSlash(_, _)
SplitSlash(s, cur) ==
  IF s = <<>> THEN <<cur>>
  ELSE IF Head(s) = "/" THEN <<cur>> \o SplitSlash(Tail(s), <<>>)
  ELSE SplitSlash(Tail(s), Append(cur, Head(s)))

\* path.normalize on segments: '' and '.' vanish, '..' removes the segment
\* before it (and stays when there is none to remove)
RECURSIVE NormalizeSegs(_, _)
NormalizeSegs(segs, acc) ==
  IF segs = <<>> THEN acc
  ELSE LET s == Head(segs) IN
    IF s = <<>> \/ s = S_dot THEN NormalizeSegs(Tail(segs), acc)
    ELSE IF s = S_dotdot /\ acc # <<>> /\ acc[Len(acc)] # S_dotdot
      THEN NormalizeSegs(Tail(segs), SubSeq(acc, 1, Len(acc) - 1))
    ELSE NormalizeSegs(Tail(segs), Append(acc, s))

\* path.join(dir, name)
PathJoin(dir, name) == NormalizeSegs(dir \o SplitSlash(name, <<>>), <<>>)

\* the directory a path lies in
Parent(p) == SubSeq(p, 1, Len(p) - 1)

(***************************************************************************)
(* SaveDocumentTool._call                                                  *)
(***************************************************************************)
S_f_md == <<"f", ".", "m", "d">>
S_X == <<"X">>
S_Y == <<"Y">>
S_c == <<"c">>

\* outcome of a call: the three returned messages and the thrown error
Created(p) == [kind |-> "Created", path |-> p, stage |-> "none"]
Overwritten(p) == [kind |-> "Overwritten", path |-> p, stage |-> "none"]
Declined(p) == [kind |-> "Declined", path |-> p, stage |-> "none"]
\* every throw inside _call is caught at the end of _call and thrown again
\* as a new Error whose message embeds the first one's message
Threw(stage) == [kind |-> "Error", path |-> <<>>, stage |-> stage]

\* the message of the error fs-extra throws in the operation the
\* environment fails
FsErrorMessage(io) ==
  CASE io = "dir" -> <<"EACCES: permission denied, mkdir">>
    [] io = "write" -> <<"ENOSPC: no space left on device, write">>
    [] OTHER -> <<>>

\* the message of the Error that leaves _call: the outer catch puts its
\* prefix before the message of the error thrown at the stage, which for
\* ensureDirSync and writeFileSync embeds the message of the error caught
ThrownMessage_noCause(stage, io) ==
  CASE stage = "dir" -> <<"save failed: ", "directory creation failed: ">>
    [] stage = "write" -> <<"save failed: ", "file write failed: ">>
    [] stage = "none" -> <<>>
    [] OTHER -> <<"save failed: ", stage>>
ThrownMessage(stage, io) ==
  CASE stage = "dir" ->
         <<"save failed: ", "directory creation failed: ">>
         \o FsErrorMessage(io)
    [] stage = "write" ->
         <<"save failed: ", "file write failed: ">> \o FsErrorMessage(io)
    [] stage = "none" -> <<>>
    [] OTHER -> <<"save failed: ", stage>>

\* switch (folderType): the configured directory's key
DirKey(folderType) ==
  IF folderType = Str(S_requirements) THEN S_requirements
  ELSE IF folderType = Str(S_designs) THEN S_designs
  ELSE S_output

\* fs.ensureDirSync(dir): dir and the directories above it exist afterwards
EnsureDir(ds, dir) == ds \cup {SubSeq(dir, 1, n) : n \in 1..Len(dir)}

\* fs.existsSync(p)
Exists(fs, ds, p) == p \in DOMAIN fs \/ p \in ds

\* fs.writeFileSync(p, content, 'utf8') when it succeeds
WriteFile_keepExisting(fs, p, content) == fs @@ (p :> content)
WriteFile(fs, p, content) == (p :> content) @@ fs

\* if (fileExists && !overwrite)
ShouldDecline_never(fileExists, overwrite) == FALSE
ShouldDecline(fileExists, overwrite) == fileExists /\ ~Truthy(overwrite)

\* the message returned after a write
WrittenOutcome_alwaysCreated(fileExists, p) == Created(p)
WrittenOutcome(fileExists, p) ==
  IF fileExists THEN Overwritten(p) ELSE Created(p)

\* the argument checks and defaults at the head of _call
ValidateArgs_noContentCheck(args, now) ==
  IF ~Truthy(args) THEN [err |-> "args"]
  ELSE
  LET folderType == Get(args, S_folderType)
      fileName == Get(args, S_fileName)
      content == Get(args, S_content)
      overwrite == Get(args, S_overwrite)
  IN [err |-> "none",
      folderType |-> IF ~Truthy(folderType) THEN Str(S_output) ELSE folderType,
      fileName |-> IF ~Truthy(fileName) THEN Str(DefaultFileName(now)) ELSE fileName,
      content |-> IF content = Undef THEN Str(<<>>) ELSE content,
      overwrite |-> IF overwrite = Undef THEN Bool(FALSE) ELSE overwrite]
ValidateArgs(args, now) ==
  IF ~Truthy(args) THEN [err |-> "args"]
  ELSE
  LET folderType == Get(args, S_folderType)
      fileName == Get(args, S_fileName)
      content == Get(args, S_content)
      overwrite == Get(args, S_overwrite)
  IN IF ~Truthy(content) THEN [err |-> "content"]
     ELSE [err |-> "none",
           folderType |-> IF ~Truthy(folderType) THEN Str(S_output) ELSE folderType,
           fileName |-> IF ~Truthy(fileName) THEN Str(DefaultFileName(now)) ELSE fileName,
           content |-> content,
           overwrite |-> IF overwrite = Undef THEN Bool(FALSE) ELSE overwrite]

\* The whole of _call on the file system (fs, ds): the outcome, the file
\* system afterwards, the file-system operations performed in order, the
\* resolved filePath (<<>> when the call ends before it is built) and
\* what existsSync answered.  io names the operation the environment fails.
SaveCall(args, io, now, fs, ds) ==
  LET done(r, fs2, ds2, ops, target, ex) ==
        [result |-> r, files |-> fs2, dirs |-> ds2, ops |-> ops,
         target |-> target, existed |-> ex]
      v == ValidateArgs(args, now)
  IN
  IF v.err # "none" THEN done(Threw(v.err), fs, ds, <<>>, <<>>, FALSE)
  ELSE IF DirKey(v.folderType) \notin DOMAIN outputDirs
    THEN done(Threw("outputDir"), fs, ds, <<>>, <<>>, FALSE)
  ELSE
  LET outputDir == outputDirs[DirKey(v.folderType)]
      filePath == PathJoin(outputDir, v.fileName.s)
  IN
  IF io = "dir" THEN done(Threw("dir"), fs, ds, <<"ensureDir">>, filePath, FALSE)
  ELSE
  LET ds2 == EnsureDir(ds, outputDir)
      fileExists == Exists(fs, ds2, filePath)
  IN
  IF ShouldDecline(fileExists, v.overwrite)
    THEN done(Declined(filePath), fs, ds2, <<"ensureDir", "exists">>,
              filePath, fileExists)
  ELSE IF io = "write" \/ filePath \in ds2 \/ Parent(filePath) \notin ds2
    THEN done(Threw("write"), fs, ds2, <<"ensureDir", "exists", "write">>,
              filePath, fileExists)
  ELSE
    done(WrittenOutcome(fileExists, filePath),
         WriteFile(fs, filePath, v.content.s), ds2,
         <<"ensureDir", "exists", "write">>, filePath, fileExists)

\* the arguments a caller may pass
FolderTypes == {Undef, Str(S_requirements), Str(S_designs), Str(S_output), Str(S_c)}
FileNames == {Undef, Str(S_f_md)}
Contents == {Undef, Str(<<>>), Str(S_X), Str(S_Y)}
Overwrites == {Undef, Bool(FALSE), Bool(TRUE)}
IoOutcomes == {"ok", "dir", "write"}

\* an object literal with the properties that are not undefined
MkArgs(ft, fn, ct, ov) ==
  LET all == (S_folderType :> ft) @@ (S_fileName :> fn)
             @@ (S_content :> ct) @@ (S_overwrite :> ov)
      keys == {k \in DOMAIN all : all[k] # Undef}
  IN Obj([k \in keys |-> all[k]])

SaveArgs ==
  {MkArgs(ft, fn, ct, ov) :
     ft \in FolderTypes, fn \in FileNames, ct \in Contents, ov \in Overwrites}
  \cup {Undef}

\* the requests of the save scenarios: a named file, content X or Y
SeqArgs ==
  {MkArgs(ft, Str(S_f_md), ct, ov) :
     ft \in FolderTypes, ct \in {Str(S_X), Str(S_Y)}, ov \in Overwrites}

NoCall ==
  [args |-> Undef, io |-> "ok", result |-> Threw("none"), ops |-> <<>>,
   target |-> <<>>, existed |-> FALSE, before |-> <<>>, message |-> <<>>]

\* the directories config/index.js makes when it is loaded
InitDirs ==
  EnsureDir({}, OutputRoot)
  \cup UNION {EnsureDir({}, outputDirs[k]) : k \in DOMAIN outputDirs}

Init ==
  /\ files = <<>>
  /\ dirs = InitDirs
  /\ last = NoCall
  /\ prev = NoCall
  /\ calls = 0
  /\ tool = "save_document"
  /\ payload = Undef
  /\ parsed = NotParsed
  /\ called = NotCalled
  /\ stamped = NotStamped
  /\ conc = NoConc
  /\ ctl = NoCtl

\* Date.now() is read only when the call has to generate a file name
ClockReadings(args) ==
  IF Truthy(args) /\ ~Truthy(Get(args, S_fileName)) THEN 1..MaxClock ELSE {1}

\* one call of saveDocumentTool._call(args)
SaveStep(args, io, now) ==
  LET r == SaveCall(args, io, now, files, dirs) IN
    /\ files' = r.files
    /\ dirs' = r.dirs
    /\ last' = [args |-> args, io |-> io, result |-> r.result, ops |-> r.ops,
                target |-> r.target, existed |-> r.existed, before |-> files,
                message |-> ThrownMessage(r.result.stage, io)]
    /\ calls' = calls + 1

Save ==
  /\ calls < MaxCalls
  /\ \E args \in SaveArgs, io \in IoOutcomes :
       \E now \in ClockReadings(args) : SaveStep(args, io, now)
  /\ prev' = prev
  /\ UNCHANGED parseVars
  /\ UNCHANGED otherVars

Next == Save

Spec == Init /\ [][Next]_vars

\* requests whose fileName holds a directory part: a parent segment, a
\* leading slash, a segment that is undone
TraversalNames ==
  {Str(S_f_md), Str(<<".", ".", "/">> \o S_f_md), Str(<<"/">> \o S_f_md),
   Str(<<"a", "/", ".", ".", "/">> \o S_f_md)}
TraversalArgs ==
  {MkArgs(ft, fn, ct, ov) :
     ft \in {Str(S_requirements), Str(S_designs)}, fn \in TraversalNames,
     ct \in {Str(S_X), Str(S_Y)}, ov \in {Undef, Bool(TRUE)}}

\* one call of _call with such a request
SaveNamed ==
  /\ calls < MaxCalls
  /\ \E args \in TraversalArgs, io \in IoOutcomes : SaveStep(args, io, 1)
  /\ prev' = prev
  /\ UNCHANGED parseVars
  /\ UNCHANGED otherVars

PathNext == SaveNamed

PathSpec == Init /\ [][PathNext]_vars

\* a sequence of calls whose file-system operations all succeed, the
\* call before the last one remembered
SaveInSequence ==
  /\ calls < MaxSeqCalls
  /\ \E args \in SeqArgs : SaveStep(args, "ok", 1)
  /\ prev' = last
  /\ UNCHANGED parseVars
  /\ UNCHANGED otherVars

SeqNext == SaveInSequence

SaveSeqSpec == Init /\ [][SeqNext]_vars

(***************************************************************************)
(* Properties of SaveDocumentTool._call                                    *)
(***************************************************************************)
\* the property k of a recorded call's arguments
ArgOf(c, k) == IF c.args.t = "obj" THEN Get(c.args, k) ELSE Undef

\* a SaveRequest: an argument object whose content is a non-empty string
IsRequest(c) == c # NoCall /\ c.args.t = "obj" /\ Truthy(ArgOf(c, S_content))

Recognized == {Str(S_requirements), Str(S_designs)}
FallbackFolder == OutputRoot \o <<S_output>>

\* root / category-subfolder / fileName for a request that names its file
RequestedPath(c) ==
  PathJoin(OutputRoot \o <<DirKey(ArgOf(c, S_folderType))>>, ArgOf(c, S_fileName).s)

\* C3: the same request {category, fileName f.md, content X, overwrite false}
\* made twice, the file absent before the first call, yields Created and
\* then Declined, and the file holds X afterwards -- for every category.
C3_SaveTwice ==
  ( /\ prev # NoCall
    /\ prev.args = last.args
    /\ ArgOf(last, S_content) = Str(S_X)
    /\ ArgOf(last, S_overwrite) = Bool(FALSE)
    /\ RequestedPath(prev) \notin DOMAIN prev.before )
  => /\ prev.result.kind = "Created"
     /\ last.result.kind = "Declined"
     /\ RequestedPath(last) \in DOMAIN files
     /\ files[RequestedPath(last)] = S_X

\* C4: a save with overwrite true and content Y to the path of a file an
\* earlier save created, no file-system operation failing, reports
\* Overwritten and leaves exactly Y in the file.
C4_Overwrite ==
  ( /\ IsRequest(last)
    /\ last.target \in DOMAIN last.before
    /\ ArgOf(last, S_overwrite) = Bool(TRUE)
    /\ ArgOf(last, S_content) = Str(S_Y)
    /\ last.io = "ok" )
  => /\ last.result = Overwritten(last.target)
     /\ files[last.target] = S_Y

C4_Witness ==
  /\ last.result.kind = "Overwritten"
  /\ last.target \in DOMAIN last.before
  /\ last.before[last.target] = S_X
  /\ files[last.target] = S_Y

\* C5: a request whose folderType is missing or unrecognized is saved (or
\* declined) under the fallback category's folder, without an error.
C5_FallbackCategory ==
  ( /\ IsRequest(last)
    /\ ArgOf(last, S_folderType) \notin Recognized
    /\ last.io = "ok" )
  => /\ last.result.kind \in {"Created", "Overwritten", "Declined"}
     /\ Parent(last.result.path) = FallbackFolder

C7_OverwrittenIffExisted ==
  last.result.kind \in {"Created", "Overwritten"}
  => /\ (last.result.kind = "Overwritten") <=> (last.target \in DOMAIN last.before)
     /\ (last.result.kind = "Created") <=> ~last.existed

C7_Witness ==
  /\ last.result.kind = "Overwritten"
  /\ last.target \in DOMAIN last.before
  /\ last.existed

\* C8: a call whose content is missing or empty ends in the content
\* validation error having performed no file-system operation: no
\* directory made, no existence check, no write, the files as before.
C8_EmptyContentRejected ==
  ( /\ last # NoCall
    /\ last.args.t = "obj"
    /\ ~Truthy(ArgOf(last, S_content)) )
  => /\ last.result = Threw("content")
     /\ last.ops = <<>>
     /\ files = last.before
     /\ dirs = InitDirs

C8_Witness ==
  /\ last.result = Threw("content")
  /\ ArgOf(last, S_content) = Str(<<>>)
  /\ ArgOf(last, S_folderType) = Str(S_requirements)
  /\ last.before # <<>>

(***************************************************************************)
(* One call of _parseStringToJson on a payload drawn at the start.         *)
(***************************************************************************)
ParseInit ==
  /\ files = <<>>
  /\ dirs = InitDirs
  /\ last = NoCall
  /\ prev = NoCall
  /\ calls = 0
  /\ tool \in Tools
  /\ payload \in Payloads
  /\ parsed = NotParsed
  /\ called = NotCalled
  /\ stamped = NotStamped
  /\ conc = NoConc
  /\ ctl = NoCtl

\* Date.now() is read only in the save_document branch
ParseClock(t) == IF t = "save_document" THEN 1..MaxClock ELSE {1}

Parse ==
  /\ parsed = NotParsed
  /\ \E now \in ParseClock(tool) :
       LET r == ParseStringToJson(tool, payload, now) IN
         parsed' = [kind |-> r.kind, v |-> r.v, via |-> r.via, now |-> now]
  /\ UNCHANGED <<tool, payload>>
  /\ UNCHANGED saveVars
  /\ UNCHANGED otherVars

ParseNext == Parse

ParseSpec == ParseInit /\ [][ParseNext]_vars

\* mappings of JSON values, and their texts
JsonValues ==
  {Null, Bool(TRUE), Num(0), Num(1), Num(0 - 1), Str(<<>>), Str(S_X),
   Str(<<"a", "\"", " ", "\\">>), Arr(<<Num(1), Str(<<"a">>)>>),
   EmptyObj, Obj(<<"a">> :> Num(1))}
MappingKeys == {S_content, S_fileName, <<"a", "\"">>}
JsonMappings ==
  UNION {[ks -> JsonValues] : ks \in {x \in SUBSET MappingKeys : Cardinality(x) <= 2}}
MappingText == [f \in JsonMappings |-> JsonStringify(Obj(f))]

\* one call of _parseStringToJson on the JSON text of a mapping
RoundTripInit ==
  /\ files = <<>>
  /\ dirs = InitDirs
  /\ last = NoCall
  /\ prev = NoCall
  /\ calls = 0
  /\ tool \in Tools
  /\ payload \in {Str(MappingText[f]) : f \in JsonMappings}
  /\ parsed = NotParsed
  /\ called = NotCalled
  /\ stamped = NotStamped
  /\ conc = NoConc
  /\ ctl = NoCtl

RoundTripSpec == RoundTripInit /\ [][ParseNext]_vars

(***************************************************************************)
(* StringInputToolWrapper._call: the wrapped tool called on the parsed     *)
(* input, every error of the try block turned into a returned text.        *)
(***************************************************************************)
S_details == <<"d", "e", "t", "a", "i", "l", "s">>
S_quoted == <<"a", "\"", "b">>

\* the schema of the tool is a z.object, which has a shape; the schema of
\* the two analysis tools is a z.union, which has none
HasShape(name) == name \in {"save_document", "generate_uml", "generate_layout"}

\* JSON.stringify(this.originalTool.schema.shape, null, 2) in the text
ShapeText(name) ==
  IF HasShape(name) THEN <<"shape of ", name>> ELSE <<"undefined">>

\* the text the catch returns for an error with the message given
ErrorText(name, message) ==
  <<"tool input error: ">> \o message \o <<"expected: ">> \o ShapeText(name)

\* what the environment of a tool that calls the language model does
ToolEnv == {"ok", "error"}

\* does the wrapped tool throw on arg: the analysis tools when the
\* environment fails them, generate_uml and generate_layout when the
\* parameter cannot be destructured or substring is called on a value
\* that is not a string
ToolThrows(name, arg, env) ==
  CASE name \in {"requirement_analysis", "external_design"} -> env = "error"
    [] name = "generate_uml" ->
         \/ arg.t \in {"null", "undefined"}
         \/ Truthy(Get(arg, S_details)) /\ Get(arg, S_details).t # "str"
    [] name = "generate_layout" ->
         \/ arg.t \in {"null", "undefined"}
         \/ Get(arg, S_description).t # "str"
    [] OTHER -> FALSE

\* the message of the Error a tool other than save_document throws
ToolMessage(name) == <<"tool failed: ", name>>

\* the inputs a caller may give to _call or to _parseStringToJson
CallInputs ==
  {Undef, Null, Num(1), Bool(TRUE), Circular, Arr(<<Num(1)>>), EmptyObj,
   Obj(<<"a">> :> Num(1)), Obj(<<"a">> :> Undef),
   Obj(S_description :> Str(S_X)),
   Obj(S_content :> Str(S_quoted)),
   MkArgs(Str(S_requirements), Str(S_f_md), Str(S_X), Undef),
   MkArgs(Undef, Undef, Str(S_X), Undef),
   MkArgs(Str(S_designs), Str(S_f_md), Str(S_Y), Bool(TRUE)),
   Str(<<>>), Str(<<" ">>), Str(<<"1">>), Str(P_null), Str(P_object),
   Str(P_helloFile), Str(P_contentObject), Str(P_prose)}

\* jsonInput: what _parseStringToJson makes of the input made a string
JsonInput(name, v, now) == ParseStringToJson(name, Str(InputString(v)), now)

ParsedAt(r, now) == [kind |-> r.kind, v |-> r.v, via |-> r.via, now |-> now]

\* the result of await originalTool._call(jsonInput) inside the try, for
\* save_document on the file system of the state
SaveResult(arg, io, now) == SaveCall(arg, io, now, files, dirs).result
ToolFails(name, arg, io, env, now) ==
  IF name = "save_document" THEN SaveResult(arg, io, now).kind = "Error"
  ELSE ToolThrows(name, arg, env)
ToolErrorMessage(name, arg, io, now) ==
  IF name = "save_document"
    THEN ThrownMessage(SaveResult(arg, io, now).stage, io)
  ELSE ToolMessage(name)

\* what _call hands to its caller once the input is a string
Returned(name, arg, io, env, now) ==
  IF ToolFails(name, arg, io, env, now)
    THEN [outcome |-> "errorText",
          text |-> ErrorText(name, ToolErrorMessage(name, arg, io, now))]
  ELSE [outcome |-> "text", text |-> <<>>]

\* one call of wrapper._call(v).  When JSON.stringify throws on v, the
\* catch calls JSON.stringify(inputStr) on the same value, which throws
\* again, out of _call.
CallStep(v, io, env, now) ==
  IF ConversionThrows(v)
    THEN /\ called' = [entry |-> "_call", input |-> v, arg |-> Undef,
                       outcome |-> "rejected", text |-> <<>>]
         /\ calls' = calls + 1
         /\ UNCHANGED <<files, dirs, last, payload, parsed>>
  ELSE
    /\ payload' = Str(InputString(v))
    /\ parsed' = ParsedAt(JsonInput(tool, v, now), now)
    /\ IF tool = "save_document"
         THEN SaveStep(JsonInput(tool, v, now).v, io, now)
         ELSE /\ calls' = calls + 1
              /\ UNCHANGED <<files, dirs, last>>
    /\ called' =
         [entry |-> "_call", input |-> v, arg |-> JsonInput(tool, v, now).v,
          outcome |-> Returned(tool, JsonInput(tool, v, now).v, io, env, now).outcome,
          text |-> Returned(tool, JsonInput(tool, v, now).v, io, env, now).text]

Call ==
  /\ calls < MaxCalls
  /\ \E v \in CallInputs, io \in IoOutcomes, env \in ToolEnv :
       \E now \in 1..MaxClock : CallStep(v, io, env, now)
  /\ UNCHANGED <<prev, tool, stamped, conc, ctl>>

\* one call of wrapper._parseStringToJson(v) by a caller that holds v
ParseDirectly ==
  /\ calls < MaxCalls
  /\ \E v \in CallInputs :
       \E now \in ParseClock(tool) :
         /\ payload' = v
         /\ parsed' = ParsedAt(ParseStringToJson(tool, v, now), now)
         /\ called' = [entry |-> "_parseStringToJson", input |-> v,
                       arg |-> Undef, outcome |-> "none", text |-> <<>>]
  /\ calls' = calls + 1
  /\ UNCHANGED <<files, dirs, last, prev, tool, stamped, conc, ctl>>

CallInit ==
  /\ files = <<>>
  /\ dirs = InitDirs
  /\ last = NoCall
  /\ prev = NoCall
  /\ calls = 0
  /\ tool \in Tools
  /\ payload = Undef
  /\ parsed = NotParsed
  /\ called = NotCalled
  /\ stamped = NotStamped
  /\ conc = NoConc
  /\ ctl = NoCtl

CallNext == Call \/ ParseDirectly

CallSpec == CallInit /\ [][CallNext]_vars

(***************************************************************************)
(* utils/formatter.js: getFormattedDateTime and getTimestampedFilename.    *)
(***************************************************************************)
\* s.padStart(2, '0')
PadStart2_none(s) == s
PadStart2(s) == IF Len(s) < 2 THEN <<"0">> \o s ELSE s

\* getFormattedDateTime() when new Date() reads the local time wall; the
\* month is getMonth(), which counts from 0
GetFormattedDateTime(wall) ==
  NatToStr(wall.year) \o PadStart2(NatToStr(wall.month + 1))
  \o PadStart2(NatToStr(wall.date)) \o <<"_">>
  \o PadStart2(NatToStr(wall.hours)) \o PadStart2(NatToStr(wall.minutes))
  \o PadStart2(NatToStr(wall.seconds))

\* s.substring(from)
Substring(s, from) == Sub(s, from + 1, Len(s))

\* /\d{8}/.test(s)
DatePatternTest(s) ==
  \E i \in 1..Len(s) : \A j \in 0..7 : At(s, i + j) \in DigitChars

\* getFormattedDateTime().substring(9)
TimeStamp_fromEight(wall) == Substring(GetFormattedDateTime(wall), 8)
TimeStamp(wall) == Substring(GetFormattedDateTime(wall), 9)

\* getTimestampedFilename(baseName, extension) called at the time wall
GetTimestampedFilename(baseName, extension, wall) ==
  IF DatePatternTest(baseName)
    THEN baseName \o TimeStamp(wall) \o <<".">> \o extension
  ELSE baseName \o <<"_">> \o GetFormattedDateTime(wall) \o <<".">>
       \o extension

\* the readings of the local clock: dates and times of day
Dates ==
  {[year |-> 2024, month |-> 0, date |-> 1],
   [year |-> 2024, month |-> 0, date |-> 2],
   [year |-> 2024, month |-> 0, date |-> 11],
   [year |-> 2024, month |-> 10, date |-> 1],
   [year |-> 2025, month |-> 11, date |-> 31]}
Times ==
  {[hours |-> 0, minutes |-> 0, seconds |-> 0],
   [hours |-> 0, minutes |-> 0, seconds |-> 1],
   [hours |-> 1, minutes |-> 11, seconds |-> 0],
   [hours |-> 11, minutes |-> 1, seconds |-> 0],
   [hours |-> 9, minutes |-> 5, seconds |-> 59],
   [hours |-> 23, minutes |-> 59, seconds |-> 59]}
WallClocks ==
  {[year |-> d.year, month |-> d.month, date |-> d.date, hours |-> t.hours,
    minutes |-> t.minutes, seconds |-> t.seconds] : d \in Dates, t \in Times}

\* base names: up to MaxPieces pieces one after the other
Pieces ==
  {<<"r">>, <<"_">>, <<"1">>, <<"2", "0", "2", "4", "0", "1", "0">>,
   <<"2", "0", "2", "4", "0", "1", "0", "1">>}
RECURSIVE Joined(_)
Joined(ps) == IF ps = <<>> THEN <<>> ELSE Head(ps) \o Joined(Tail(ps))
BaseNames == {Joined(ps) : ps \in UNION {[1..k -> Pieces] : k \in 0..MaxPieces}}
Extensions == {S_md, S_json}

\* the first call of getTimestampedFilename
StampFirst ==
  /\ stamped.n = 0
  /\ \E b \in BaseNames, e \in Extensions, w \in WallClocks :
       stamped' = [n |-> 1, baseName |-> b, extension |-> e, wall |-> w,
                   name |-> GetTimestampedFilename(b, e, w),
                   wall0 |-> w, name0 |-> GetTimestampedFilename(b, e, w)]
  /\ UNCHANGED <<saveVars, parseVars, called, conc, ctl>>

\* a second call with the same baseName and extension, at any reading of
\* the clock
StampAgain ==
  /\ stamped.n = 1
  /\ \E w \in WallClocks :
       stamped' = [stamped EXCEPT !.n = 2, !.wall = w,
                     !.name = GetTimestampedFilename(stamped.baseName,
                                                      stamped.extension, w)]
  /\ UNCHANGED <<saveVars, parseVars, called, conc, ctl>>

StampInit ==
  /\ files = <<>>
  /\ dirs = InitDirs
  /\ last = NoCall
  /\ prev = NoCall
  /\ calls = 0
  /\ tool = "save_document"
  /\ payload = Undef
  /\ parsed = NotParsed
  /\ called = NotCalled
  /\ stamped = NotStamped
  /\ conc = NoConc
  /\ ctl = NoCtl

StampNext == StampFirst \/ StampAgain

StampSpec == StampInit /\ [][StampNext]_vars

(***************************************************************************)
(* SaveDocumentTool._call under concurrent callers of one process.  The    *)
(* body of _call holds no await: once it starts it runs to its return,     *)
(* existsSync and writeFileSync included, before any other call's body.    *)
(***************************************************************************)
Callers == 1..MaxCallers

\* the requests of the callers: one file name in two folders
ConcArgs ==
  {MkArgs(ft, Str(S_f_md), ct, ov) :
     ft \in {Str(S_requirements), Str(S_designs)},
     ct \in {Str(S_X), Str(S_Y)}, ov \in {Undef, Bool(TRUE)}}

Idle ==
  [pc |-> "idle", args |-> Undef, atCall |-> <<>>, before |-> <<>>,
   after |-> <<>>, result |-> Threw("none"), target |-> <<>>]

\* the file system the body works on, given the one of the moment the
\* body starts and the one of the moment the caller made the call
BodyFiles_atCall(current, atCall) == atCall
BodyFiles(current, atCall) == current

\* a caller calls the tool: the call is on its way to _call through the
\* awaits of the wrapper and of StructuredTool
Submit(c) ==
  /\ conc[c].pc = "idle"
  /\ \E args \in ConcArgs :
       conc' = [conc EXCEPT ![c] =
                  [Idle EXCEPT !.pc = "submitted", !.args = args,
                               !.atCall = files]]
  /\ UNCHANGED <<files, dirs>>
  /\ UNCHANGED <<last, prev, calls, parseVars, called, stamped, ctl>>

\* the body of _call runs, its file-system operations succeeding
RunOn(c, r) ==
  /\ files' = r.files
  /\ dirs' = r.dirs
  /\ conc' = [conc EXCEPT ![c] =
                [@ EXCEPT !.pc = "settled", !.before = files,
                          !.after = r.files, !.result = r.result,
                          !.target = r.target]]
Run(c) ==
  /\ conc[c].pc = "submitted"
  /\ RunOn(c, SaveCall(conc[c].args, "ok", 1,
                       BodyFiles(files, conc[c].atCall), dirs))
  /\ UNCHANGED <<last, prev, calls, parseVars, called, stamped, ctl>>

\* the caller's await gets the returned message
Deliver(c) ==
  /\ conc[c].pc = "settled"
  /\ conc' = [conc EXCEPT ![c].pc = "done"]
  /\ UNCHANGED <<files, dirs>>
  /\ UNCHANGED <<last, prev, calls, parseVars, called, stamped, ctl>>

ConcInit ==
  /\ files = <<>>
  /\ dirs = InitDirs
  /\ last = NoCall
  /\ prev = NoCall
  /\ calls = 0
  /\ tool = "save_document"
  /\ payload = Undef
  /\ parsed = NotParsed
  /\ called = NotCalled
  /\ stamped = NotStamped
  /\ conc = [c \in Callers |-> Idle]
  /\ ctl = NoCtl

ConcNext == \E c \in Callers : Submit(c) \/ Run(c) \/ Deliver(c)

ConcSpec == ConcInit /\ [][ConcNext]_vars

(***************************************************************************)
(* AgentController: initialize, createSession, changeModel, processInput.  *)
(* A call runs from one await to the next in one step; the awaited         *)
(* operations (agent.initialize, agent.run, modelSelector.getModel)        *)
(* settle later, with success or with an error.  A session is named by     *)
(* its place in the order of creation, and that is its id: createSession   *)
(* calls are taken to fall in different milliseconds.                      *)
(***************************************************************************)
CtlCallers == {"a", "b"}
ModelNames == {"m1", "m2"}
\* config.models.defaultModel
DefaultModel == "m1"

NoProc ==
  [pc |-> "idle", op |-> "none", n |-> 0, arg |-> "none", userSession |-> 0,
   outSession |-> 0, returnedId |-> 0, threw |-> "none", error |-> "none",
   before |-> [modelName |-> "none", initialized |-> FALSE],
   after |-> [modelName |-> "none", initialized |-> FALSE]]

\* the controller after its constructor
NewController ==
  [ops |-> 0, initialized |-> FALSE, active |-> 0, sessions |-> <<>>,
   agent |-> [modelName |-> DefaultModel, initialized |-> FALSE],
   procs |-> [p \in CtlCallers |-> NoProc]]

\* createSession(): the new session becomes the active one
WithSession(c) ==
  [c EXCEPT !.sessions =
              Append(@, [messages |-> <<>>, modelName |-> c.agent.modelName]),
            !.active = Len(c.sessions) + 1]

\* this.activeSession.messages.push({role, ...}) for the call n
Push(c, role, n) ==
  [c EXCEPT !.sessions[c.active].messages =
              Append(@, [role |-> role, n |-> n])]

\* the session the outcome of a call is recorded in: this.activeSession
\* is read again after the await
OutcomeSession(c, p) == c.active

\* the catch of processInput with no active session: the push throws a
\* TypeError, which is the error that leaves processInput
CatchError(c, threw) == IF c.active = 0 THEN "TypeError" ELSE threw

\* a caller may start a call when it is not inside one
Free(p) == ctl.procs[p].pc \in {"idle", "done", "failed"}
Begun(c, p, op, arg) ==
  [c EXCEPT !.ops = @ + 1,
            !.procs[p] = [NoProc EXCEPT !.op = op, !.n = c.ops + 1,
                                        !.arg = arg, !.before = c.agent]]
Waiting(c, p, pc) == [c EXCEPT !.procs[p].pc = pc]

\* processInput after `if (!this.initialized) await this.initialize()`:
\* the user message is pushed and agent.run awaited
UserPushed(c, p) ==
  [Push(c, "user", c.procs[p].n) EXCEPT
     !.procs[p].pc = "run", !.procs[p].userSession = c.active]

\* a call that ends with an error: what was thrown first, what the caller
\* gets
Failed(c, p, threw, error) ==
  [c EXCEPT !.procs[p].pc = "failed", !.procs[p].threw = threw,
            !.procs[p].error = error, !.procs[p].after = c.agent]

\* the catch of processInput: the error message is pushed to the active
\* session, then the error is thrown again
ProcessInputFailed(c, p, threw) ==
  IF c.active = 0 THEN Failed(c, p, threw, CatchError(c, threw))
  ELSE [Failed(Push(c, "error", c.procs[p].n), p, threw,
               CatchError(c, threw))
          EXCEPT !.procs[p].outSession = OutcomeSession(c, p)]

CreateSession ==
  /\ ctl.ops < MaxOps
  /\ ctl' = [WithSession(ctl) EXCEPT !.ops = @ + 1]
  /\ UNCHANGED <<saveVars, parseVars, called, stamped, conc>>

StartInitialize(p) ==
  /\ Free(p) /\ ctl.ops < MaxOps
  /\ ctl' = Waiting(Begun(ctl, p, "initialize", "none"), p, "init")
  /\ UNCHANGED <<saveVars, parseVars, called, stamped, conc>>

StartProcessInput(p) ==
  /\ Free(p) /\ ctl.ops < MaxOps
  /\ ctl' = IF ctl.initialized
              THEN UserPushed(Begun(ctl, p, "processInput", "none"), p)
              ELSE Waiting(Begun(ctl, p, "processInput", "none"), p, "init")
  /\ UNCHANGED <<saveVars, parseVars, called, stamped, conc>>

StartChangeModel(p) ==
  /\ Free(p) /\ ctl.ops < MaxOps
  /\ \E m \in ModelNames :
       ctl' = Waiting(Begun(ctl, p, "changeModel", m), p,
                 IF ctl.initialized THEN "get" ELSE "init")
  /\ UNCHANGED <<saveVars, parseVars, called, stamped, conc>>

\* controller.initialize once agent.initialize() has resolved
Initialized(c) ==
  [WithSession([c EXCEPT !.agent.initialized = TRUE]) EXCEPT
     !.initialized = TRUE]
\* and once it has rejected
NotInitialized(c) ==
  [c EXCEPT !.agent.initialized = FALSE, !.initialized = FALSE]

\* the agent.initialize() awaited by controller.initialize settles, and
\* the call that awaited initialize goes on
InitDone(p) ==
  /\ ctl.procs[p].pc = "init"
  /\ \E ok \in BOOLEAN :
       ctl' =
         IF ok THEN
           CASE ctl.procs[p].op = "processInput" ->
                  UserPushed(Initialized(ctl), p)
             [] ctl.procs[p].op = "changeModel" ->
                  Waiting(Initialized(ctl), p, "get")
             [] OTHER -> Waiting(Initialized(ctl), p, "done")
         ELSE
           IF ctl.procs[p].op = "processInput"
             THEN ProcessInputFailed(NotInitialized(ctl), p, "init")
             ELSE Failed(NotInitialized(ctl), p, "init", "init")
  /\ UNCHANGED <<saveVars, parseVars, called, stamped, conc>>

\* the agent.run awaited by processInput settles
Answered(c, p) ==
  [Push(c, "assistant", c.procs[p].n) EXCEPT
     !.procs[p].pc = "done",
     !.procs[p].outSession = OutcomeSession(c, p),
     !.procs[p].returnedId = OutcomeSession(c, p),
     !.agent.initialized = TRUE]
\* agent.run rejects either in its own initialize (the agent stays
\* uninitialized) or in executor.invoke
RunDone(p) ==
  /\ ctl.procs[p].pc = "run"
  /\ \/ ctl' = Answered(ctl, p)
     \/ \E i \in {ctl.agent.initialized, TRUE} :
          ctl' = ProcessInputFailed([ctl EXCEPT !.agent.initialized = i],
                                    p, "agent")
  /\ UNCHANGED <<saveVars, parseVars, called, stamped, conc>>

\* agent.changeModel: modelSelector.getModel(modelName) settles; on
\* success the name is stored and the agent initialized again
GetDone(p) ==
  /\ ctl.procs[p].pc = "get"
  /\ \E ok \in BOOLEAN :
       ctl' = IF ok
                THEN [ctl EXCEPT !.agent.modelName = ctl.procs[p].arg,
                                 !.agent.initialized = FALSE,
                                 !.procs[p].pc = "reinit"]
                ELSE Failed(ctl, p, "model", "model")
  /\ UNCHANGED <<saveVars, parseVars, called, stamped, conc>>

\* agent.changeModel: this.initialize() settles; on success the
\* controller stores the name in the active session
SessionRenamed(c, p) ==
  IF c.active = 0 THEN c
  ELSE [c EXCEPT !.sessions[c.active].modelName = c.procs[p].arg]
ReinitDone(p) ==
  /\ ctl.procs[p].pc = "reinit"
  /\ \E ok \in BOOLEAN :
       ctl' = IF ok
                THEN Waiting(SessionRenamed([ctl EXCEPT !.agent.initialized = TRUE], p),
                        p, "done")
                ELSE Failed([ctl EXCEPT !.agent.initialized = FALSE], p,
                            "init", "init")
  /\ UNCHANGED <<saveVars, parseVars, called, stamped, conc>>

CtlInit ==
  /\ files = <<>>
  /\ dirs = InitDirs
  /\ last = NoCall
  /\ prev = NoCall
  /\ calls = 0
  /\ tool = "save_document"
  /\ payload = Undef
  /\ parsed = NotParsed
  /\ called = NotCalled
  /\ stamped = NotStamped
  /\ conc = NoConc
  /\ ctl = NewController

CtlNext ==
  \/ CreateSession
  \/ \E p \in CtlCallers :
       \/ StartInitialize(p)
       \/ StartProcessInput(p)
       \/ StartChangeModel(p)
       \/ InitDone(p)
       \/ RunDone(p)
       \/ GetDone(p)
       \/ ReinitDone(p)

CtlSpec == CtlInit /\ [][CtlNext]_vars

(***************************************************************************)
(* Properties of _parseStringToJson                                        *)
(***************************************************************************)
\* the payload as the string the cascade works on
PayloadStr == ToStr(payload)

\* the call went through the cascade: the payload is a string (or was
\* made one) and is not blank
Cascaded ==
  /\ parsed # NotParsed
  /\ payload.t \in {"str", "num", "bool"}
  /\ Trim(PayloadStr) # <<>>

StrictOk == JsonParse(PayloadStr).ok
CleanedOk == JsonParse(CleanInput(PayloadStr)).ok
KeyValueOk == DOMAIN KeyValueExtract(PayloadStr).o # {}

\* C1: for a string payload the call returns a mapping: never null,
\* undefined, or a value that is not an object.
C1_Totality ==
  (parsed # NotParsed /\ payload.t = "str")
  => parsed.kind = "return" /\ parsed.v.t = "obj"

\* C2: the call ends by returning a value, whatever the payload and the
\* tool: no error thrown in a strategy or an extractor leaves it.
C2_NeverThrows ==
  parsed # NotParsed => parsed.kind = "return"

C2_Witness ==
  /\ parsed.kind = "return"
  /\ parsed.via = "tool"
  /\ tool = "save_document"
  /\ payload = Str(P_fencedText)

\* C9: on a payload that is not blank the result is the output of the
\* first strategy that succeeds, in the order strict parse, cleaned parse,
\* key-value extraction, the tool's extractor, opaque fallback, the same
\* for every tool.
FirstSuccess ==
  IF StrictOk THEN "strict"
  ELSE IF CleanedOk THEN "cleaned"
  ELSE IF KeyValueOk THEN "keyvalue"
  ELSE IF HasExtractor(tool) THEN "tool"
  ELSE "fallback"

StrategyOutput(strategy) ==
  CASE strategy = "strict" -> JsonParse(PayloadStr).v
    [] strategy = "cleaned" -> JsonParse(CleanInput(PayloadStr)).v
    [] strategy = "keyvalue" -> KeyValueExtract(PayloadStr)
    [] strategy = "tool" /\ tool = "requirement_analysis" ->
         Obj(S_description :> Str(PayloadStr))
    [] strategy = "tool" /\ tool = "external_design" ->
         Obj(S_requirementsAnalysis :> Str(PayloadStr))
    [] strategy = "tool" /\ tool = "save_document" ->
         SaveDocumentExtract(PayloadStr, parsed.now).v
    [] OTHER -> Obj(S_input :> Str(PayloadStr))

C9_StrategyOrder ==
  Cascaded =>
    /\ parsed.kind = "return"
    /\ parsed.via = FirstSuccess
    /\ parsed.v = StrategyOutput(FirstSuccess)

C9_Witness ==
  /\ Cascaded
  /\ tool = "requirement_analysis"
  /\ ~StrictOk /\ ~CleanedOk /\ KeyValueOk
  /\ parsed.via = "keyvalue"

\* C10: for a tool without an extractor, a payload that is not blank and
\* on which strict parse, cleaned parse and key-value extraction all fail
\* comes back as exactly {input: payload}.
C10_OpaqueFallback ==
  ( /\ Cascaded
    /\ payload.t = "str"
    /\ tool \in {"generate_uml", "generate_layout"}
    /\ ~StrictOk /\ ~CleanedOk /\ ~KeyValueOk )
  => /\ parsed.kind = "return"
     /\ parsed.v = Obj(S_input :> payload)

C10_Witness ==
  /\ parsed.via = "fallback"
  /\ tool = "generate_layout"
  /\ payload = Str(<<" ", "a", " ">>)
  /\ parsed.v = Obj(S_input :> Str(<<" ", "a", " ">>))

\* C11: a payload that is the empty string or only white space comes back
\* as the empty mapping by the return placed before the strategies,
\* whatever the tool: no strategy and no extractor produced the result.
Blank == payload.t = "str" /\ Trim(payload.s) = <<>>

C11_BlankIsEmpty ==
  (parsed # NotParsed /\ Blank)
  => /\ parsed.kind = "return"
     /\ parsed.v = EmptyObj
     /\ parsed.via = "empty"

C11_Witness ==
  /\ parsed.via = "empty"
  /\ parsed.v = EmptyObj
  /\ tool = "save_document"
  /\ payload = Str(<<" ", " ">>)

\* C12: the payload content: "Hello", fileName: "x.md" parsed for
\* save_document gives a mapping with content Hello, fileName x.md and
\* folderType set to the fallback category.
C12_HelloFile ==
  (parsed # NotParsed /\ tool = "save_document" /\ payload = Str(P_helloFile))
  => /\ parsed.kind = "return"
     /\ parsed.v.t = "obj"
     /\ Get(parsed.v, S_content) = Str(<<"H", "e", "l", "l", "o">>)
     /\ Get(parsed.v, S_fileName) = Str(<<"x", ".", "m", "d">>)
     /\ Get(parsed.v, S_folderType) = Str(S_output)

\* C13: when the content extracted for save_document is empty after
\* trimming, the call ends in the validation error thrown to the caller:
\* it returns neither the opaque fallback nor any other mapping.
EmptySaveContent ==
  /\ Cascaded
  /\ tool = "save_document"
  /\ \/ parsed.via = "catch"
     \/ /\ parsed.v.t = "obj"
        /\ Get(parsed.v, S_content).t = "str"
        /\ Trim(Get(parsed.v, S_content).s) = <<>>

FailedOperation ==
  \/ last.io = "dir" /\ last.ops = <<"ensureDir">>
  \/ last.io = "write" /\ last.ops = <<"ensureDir", "exists", "write">>

EndsWith(s, w) ==
  Len(w) <= Len(s) /\ SubSeq(s, Len(s) - Len(w) + 1, Len(s)) = w

C14_RoundTrip ==
  \A f \in JsonMappings :
    (parsed # NotParsed /\ payload = Str(MappingText[f]))
    => /\ parsed.kind = "return"
       /\ parsed.v = Obj(f)

C14_Witness ==
  /\ tool = "save_document"
  /\ payload = Str(MappingText[S_content :> Str(S_X)])
  /\ parsed.v = Obj(S_content :> Str(S_X))
  /\ parsed.via = "strict"

\* C15: for a tool without an extractor, a fenced code block, with or
\* without the json tag, around {"a":1} parses to the mapping {a: 1}, and
\* it is the cleaned parse that produces it.
C15_FencedBlock ==
  ( /\ parsed # NotParsed
    /\ tool \in {"generate_uml", "generate_layout"}
    /\ payload \in {Str(P_fencedJson), Str(P_fenced)} )
  => /\ parsed.kind = "return"
     /\ parsed.v = Obj(<<"a">> :> Num(1))
     /\ parsed.via = "cleaned"

C15_Witness ==
  /\ tool = "generate_uml"
  /\ payload = Str(P_fencedJson)
  /\ parsed.via = "cleaned"
  /\ parsed.v = Obj(<<"a">> :> Num(1))

\* does the chunk c occur in the text t
Embeds(t, c) == \E i \in 1..Len(t) : t[i] = c

\* C17: StringInputToolWrapper._call never rejects: whatever the input,
\* it returns the text of the tool or, for an error raised while parsing
\* or by the wrapped tool, an error text that embeds the shape of the
\* fields the tool expects.
C17_NeverRejects ==
  called.entry = "_call" =>
    /\ called.outcome \in {"text", "errorText"}
    /\ called.outcome = "errorText" =>
         Embeds(called.text, "shape of ") /\ Embeds(called.text, tool)

\* a mapping, the one that holds itself included
IsMapping(v) == v.t \in {"obj", "circular"}

\* a value JSON has a text for: null, a boolean, an integer, a string,
\* an array or a mapping of such values
RECURSIVE IsJsonValue(_)
IsJsonValue(v) ==
  CASE v.t \in {"null", "bool", "num", "str"} -> TRUE
    [] v.t = "arr" -> \A i \in 1..Len(v.a) : IsJsonValue(v.a[i])
    [] v.t = "obj" -> \A k \in DOMAIN v.o : IsJsonValue(v.o[k])
    [] OTHER -> FALSE

\* _parseStringToJson returns a mapping as it is, no strategy applied
DirectPassThrough ==
  (called.entry = "_parseStringToJson" /\ IsMapping(called.input)) =>
    parsed.kind = "return" /\ parsed.v = called.input
    /\ parsed.via = "passthrough"

\* C18 as stated: a mapping given to _parseStringToJson is returned
\* unchanged, no strategy applied, and a mapping given to _call reaches
\* the wrapped tool with exactly the same fields and values.
C18_MappingUnchanged ==
  /\ DirectPassThrough
  /\ (called.entry = "_call" /\ IsMapping(called.input)) =>
       called.outcome # "rejected" /\ called.arg = called.input

\* C18: a mapping given to _parseStringToJson is returned unchanged, no
\* strategy applied; a mapping of JSON values (strings, integers,
\* booleans, null, arrays and mappings of these) given to _call, which
\* serializes it and parses it back, reaches the wrapped tool with
\* exactly the same fields and values.
C18_JsonMappingUnchanged ==
  /\ DirectPassThrough
  /\ (called.entry = "_call" /\ called.input.t = "obj"
      /\ IsJsonValue(called.input)) =>
       called.outcome # "rejected" /\ called.arg = called.input

\* a save request given to _call as a mapping was written to its file
C18_Witness ==
  /\ tool = "save_document"
  /\ called.entry = "_call"
  /\ called.input = MkArgs(Str(S_requirements), Str(S_f_md), Str(S_X), Undef)
  /\ called.arg = called.input
  /\ parsed.via = "strict"
  /\ last.result.kind = "Created"

\* n written with two digits
TwoDigits(n) == <<Digits[(n \div 10) + 1], Digits[(n % 10) + 1]>>
\* HHMMSS and YYYYMMDD of a reading of the clock, the year of four digits
HHMMSS(w) == TwoDigits(w.hours) \o TwoDigits(w.minutes) \o TwoDigits(w.seconds)
YYYYMMDD(w) ==
  TwoDigits(w.year \div 100) \o TwoDigits(w.year % 100)
  \o TwoDigits(w.month + 1) \o TwoDigits(w.date)
\* is there a run of 8 digits in s
HasEightDigits(s) ==
  \E i \in 1..Len(s) :
    i + 7 <= Len(s) /\ \A j \in i..(i + 7) : s[j] \in DigitChars

StampIn(name) ==
  Sub(name, Len(stamped.baseName) + 1,
      Len(name) - Len(stamped.extension) - 1)
SameTimeOfDay(w1, w2) ==
  w1.hours = w2.hours /\ w1.minutes = w2.minutes /\ w1.seconds = w2.seconds

\* C20 as stated: two calls with the same baseName and extension made in
\* different wall-clock seconds return names that differ in the appended
\* stamp.
C20_DifferentSecondsDiffer ==
  (stamped.n = 2 /\ stamped.wall # stamped.wall0) =>
    StampIn(stamped.name) # StampIn(stamped.name0)

\* C20: two calls with the same baseName and extension made in different
\* wall-clock seconds return names that differ in the appended stamp,
\* provided baseName holds no run of 8 digits or the two seconds differ
\* in their time of day; two calls within the same second return
\* identical names.
C20_StampsDiffer ==
  stamped.n = 2 =>
    /\ (/\ stamped.wall # stamped.wall0
        /\ \/ ~HasEightDigits(stamped.baseName)
           \/ ~SameTimeOfDay(stamped.wall, stamped.wall0)) =>
         /\ StampIn(stamped.name) # StampIn(stamped.name0)
         /\ stamped.name # stamped.name0
    /\ stamped.wall = stamped.wall0 => stamped.name = stamped.name0

\* r stamped at 00:00:00 and again one second later
C20_Witness ==
  /\ stamped.n = 2
  /\ stamped.baseName = <<"r">>
  /\ SameTimeOfDay(stamped.wall0, [hours |-> 0, minutes |-> 0, seconds |-> 0])
  /\ SameTimeOfDay(stamped.wall, [hours |-> 0, minutes |-> 0, seconds |-> 1])
  /\ stamped.wall.date = stamped.wall0.date
  /\ stamped.name # stamped.name0

\* the `identifier : value` segments of s from index i on, in order: the
\* key and the text of the value of each
RECURSIVE SegmentsFrom(_, _)
SegmentsFrom(s, i) ==
  IF i > Len(s) THEN <<>>
  ELSE IF KVMatchAt(s, i).found
    THEN <<[key |-> KVMatchAt(s, i).key, raw |-> KVMatchAt(s, i).raw]>>
         \o SegmentsFrom(s, KVMatchAt(s, i).next)
  ELSE SegmentsFrom(s, i + 1)
Segments == SegmentsFrom(PayloadStr, 1)

\* the value of a key as the rule of the claim gives it
QuotedBothEnds(t) ==
  /\ Len(t) >= 2
  /\ \/ t[1] = "\"" /\ t[Len(t)] = "\""
     \/ t[1] = "'" /\ t[Len(t)] = "'"
ValueOfText(t) ==
  IF ToLower(t) = S_true THEN Bool(TRUE)
  ELSE IF ToLower(t) = S_false THEN Bool(FALSE)
  ELSE IF IsNumeric(t) THEN Num(NumberOf(t))
  ELSE IF QuotedBothEnds(t) THEN Str(SubSeq(t, 2, Len(t) - 1))
  ELSE Str(t)

\* the last segment of segs whose key is k
LastOf(segs, k) ==
  segs[CHOOSE i \in 1..Len(segs) :
         segs[i].key = k /\ \A j \in (i + 1)..Len(segs) : segs[j].key # k]

\* the mapping the segments stand for
MappingOf(segs) ==
  Obj([k \in {segs[i].key : i \in 1..Len(segs)} |->
         ValueOfText(Trim(LastOf(segs, k).raw))])

\* the strict and the cleaned parse have failed: the key-value
\* extraction is tried
KeyValueTried == Cascaded /\ ~StrictOk /\ ~CleanedOk

\* C21: key-value extraction succeeds exactly when the uncleaned string
\* holds an `identifier : value` segment; each key has the value of its
\* last segment: a boolean for true/false in any case, else a number for
\* a numeric text, else the text without its quotes when quoted on both
\* ends, else the trimmed text.
C21_KeyValue ==
  KeyValueTried =>
    /\ parsed.via = "keyvalue" <=> Segments # <<>>
    /\ parsed.via = "keyvalue" => parsed.v = MappingOf(Segments)

\* the one text field of the two analysis tools
SingleField ==
  IF tool = "requirement_analysis" THEN S_description
  ELSE S_requirementsAnalysis

\* C22: for requirement_analysis and external_design, when the strict
\* parse, the cleaned parse and the key-value extraction all fail on a
\* payload that is not blank, the call returns the mapping of one field,
\* description resp. requirementsAnalysis, holding the whole raw string;
\* the opaque fallback {input: raw} is never returned for these tools.
C22_SingleField ==
  (parsed # NotParsed /\ tool \in {"requirement_analysis", "external_design"})
  => /\ (KeyValueTried /\ ~KeyValueOk) =>
          /\ parsed.kind = "return"
          /\ parsed.v = Obj(SingleField :> Str(PayloadStr))
     /\ parsed.via # "fallback"
     /\ ~(parsed.v.t = "obj" /\ DOMAIN parsed.v.o = {S_input}
          /\ KeyValueTried /\ ~KeyValueOk)

\* the prose "save this", with a space before it kept, wrapped for
\* requirement_analysis
C22_Witness ==
  /\ tool = "requirement_analysis"
  /\ payload \in {Str(P_prose), Str(<<" ", "a">>)}
  /\ parsed.via = "tool"
  /\ parsed.v = Obj(S_description :> payload)

\* the call returned what the patterns of the save_document branch made
ByPatterns ==
  /\ Cascaded
  /\ tool = "save_document"
  /\ parsed.via = "tool"
  /\ parsed.kind = "return"

\* the first of the four content patterns, in their order, that matches
\* the payload, and what it captured, trimmed
FirstMatching ==
  CHOOSE n \in 1..4 :
    /\ ContentMatchFrom(n, PayloadStr, 1).found
    /\ \A k \in 1..(n - 1) : ~ContentMatchFrom(k, PayloadStr, 1).found
FirstCapture == Trim(ContentMatchFrom(FirstMatching, PayloadStr, 1).g)

FolderTypeFound == NamedFieldFrom(PayloadStr, S_folderType, 1)
FileNameFound == NamedFieldFrom(PayloadStr, S_fileName, 1)
OverwriteFound == OverwriteFrom(ToLower(PayloadStr), 1)

\* is name a name the Naming Utility makes with the extension md: some
\* base name stamped at some reading of the clock
ByNamingUtility(name) ==
  \E k \in 0..Len(name), w \in WallClocks :
    name = GetTimestampedFilename(SubSeq(name, 1, k), S_md, w)

EndsWith_md(name) ==
  Len(name) >= 3 /\ SubSeq(name, Len(name) - 2, Len(name)) = S_dotmd

\* the mapping carries a category and a fileName; a field found in the
\* payload is the one returned, a missing category is the fallback one,
\* a missing fileName is replaced by a name that ends with .md
AuxiliaryFields ==
  ByPatterns =>
    /\ {S_folderType, S_fileName} \subseteq DOMAIN parsed.v.o
    /\ Get(parsed.v, S_folderType) =
         Str(IF FolderTypeFound.found THEN Trim(FolderTypeFound.g)
             ELSE S_output)
    /\ FileNameFound.found =>
         Get(parsed.v, S_fileName) = Str(Trim(FileNameFound.g))
    /\ ~FileNameFound.found =>
         /\ Get(parsed.v, S_fileName).t = "str"
         /\ EndsWith_md(Get(parsed.v, S_fileName).s)
    /\ OverwriteFound.found =>
         Get(parsed.v, S_overwrite) = Bool(OverwriteFound.g = S_true)

\* C24: every mapping of the document-save extractor carries a category
\* and a fileName: the fallback category when the payload has none, a
\* name generated by the Naming Utility, with the .md extension, when it
\* has no fileName; a field found in the payload goes before its default.
C24_Defaults ==
  /\ AuxiliaryFields
  /\ (ByPatterns /\ ~FileNameFound.found) =>
       ByNamingUtility(Get(parsed.v, S_fileName).s)

\* the callers whose call has run
Ran == {c \in Callers : conc[c].pc \in {"settled", "done"}}
NoOverwrite(c) == ~Truthy(Get(conc[c].args, S_overwrite))

\* C25: whatever the interleaving of the callers, no other call's write
\* falls between the existence check and the write of a call: a call
\* with overwrite false leaves every file that exists as it is, and of
\* the overwrite-false calls that target one path, absent at the start
\* and written by no other call, exactly one reports Created and the
\* others report Declined.
C25_CheckThenWrite ==
  conc # NoConc =>
    /\ \A c \in Ran :
         NoOverwrite(c) =>
           \A p \in DOMAIN conc[c].before :
             p \in DOMAIN conc[c].after /\ conc[c].after[p] = conc[c].before[p]
    /\ \A c \in Ran :
         (\A d \in Ran : conc[d].target = conc[c].target => NoOverwrite(d))
         => /\ Cardinality({d \in Ran : /\ conc[d].target = conc[c].target
                                        /\ conc[d].result.kind = "Created"}) = 1
            /\ \A d \in Ran :
                 conc[d].target = conc[c].target =>
                   conc[d].result.kind \in {"Created", "Declined"}

\* two callers asked for the same absent file before either call ran:
\* one created it, the other was declined and the first content stayed
C25_Witness ==
  /\ conc # NoConc
  /\ Ran = Callers
  /\ \A c \in Callers : NoOverwrite(c) /\ conc[c].atCall = <<>>
  /\ \E c, d \in Callers :
       /\ conc[c].target = conc[d].target
       /\ conc[c].args # conc[d].args
       /\ conc[c].result.kind = "Created"
       /\ conc[d].result.kind = "Declined"
       /\ conc[d].after = conc[c].after

\* no strategy before the tool's branch gave a mapping
ExtractorReached ==
  KeyValueTried /\ ~KeyValueOk /\ tool = "save_document"

\* C26: whenever the document-save extractor is reached, the call
\* returns its mapping, whose content is a string that is not blank: a
\* capture that is empty after trimming is replaced by the whole raw
\* input, and the empty-content failure never happens.
C26_ContentNotBlank ==
  ExtractorReached =>
    /\ parsed.kind = "return"
    /\ parsed.via = "tool"
    /\ Get(parsed.v, S_content).t = "str"
    /\ Trim(Get(parsed.v, S_content).s) # <<>>
    /\ FirstCapture = <<>> => Get(parsed.v, S_content) = Str(PayloadStr)

\* the fenced block that holds one space: the content is the payload
C26_Witness ==
  /\ ExtractorReached
  /\ payload = Str(P_blankFence)
  /\ FirstMatching = 3
  /\ FirstCapture = <<>>
  /\ Get(parsed.v, S_content) = payload

\* the folder of the category the request resolves to
CategoryFolder(c) == OutputRoot \o <<DirKey(ArgOf(c, S_folderType))>>
Inside(p, dir) == Len(p) > Len(dir) /\ SubSeq(p, 1, Len(dir)) = dir

\* the files the last call created or modified
Touched ==
  {p \in DOMAIN files : p \notin DOMAIN last.before \/ files[p] # last.before[p]}

\* C27: the only file a save call creates or modifies lies inside the
\* folder of the resolved category, root / category-subfolder, whatever
\* the fileName.
C27_Containment ==
  last # NoCall => \A p \in Touched : Inside(p, CategoryFolder(last))

(***************************************************************************)
(* Properties of AgentController.                                          *)
(***************************************************************************)
\* the processInput calls that have ended
EndedInput(p) ==
  /\ ctl.procs[p].op = "processInput"
  /\ ctl.procs[p].pc \in {"done", "failed"}

\* C28: for every processInput call that has ended and had appended its
\* user message, the assistant or error message recording the outcome
\* was appended to the session that got the user message, and the
\* sessionId returned is the id of that session, whatever createSession,
\* processInput and initialize calls ran while agent.run was pending.
C28_SameSession ==
  \A p \in CtlCallers :
    (EndedInput(p) /\ ctl.procs[p].userSession # 0) =>
      /\ ctl.procs[p].outSession = ctl.procs[p].userSession
      /\ ctl.procs[p].pc = "done" =>
           ctl.procs[p].returnedId = ctl.procs[p].userSession

\* C29: a processInput call that was made on a controller not yet
\* initialized and whose initialization failed delivers the
\* initialization error to its caller, also when there is no active
\* session to record the error in.
C29_InitErrorDelivered ==
  \A p \in CtlCallers :
    (EndedInput(p) /\ ctl.procs[p].threw = "init") =>
      ctl.procs[p].error = "init"

\* no call is in progress
Quiet == \A p \in CtlCallers : Free(p)

\* what a failed changeModel may do to the agent: nothing to its
\* modelName, and to its initialized flag only the initialization that
\* changeModel makes first on a controller not yet initialized
LeftAsBefore(before, after) ==
  /\ after.modelName = before.modelName
  /\ before.initialized => after.initialized

\* C30: whenever no call is in progress the active session's modelName
\* is the agent's modelName, and a changeModel call that failed left the
\* agent's modelName and initialized flag as they were before the call.
C30_ModelInSync ==
  /\ (Quiet /\ ctl.active # 0) =>
       ctl.sessions[ctl.active].modelName = ctl.agent.modelName
  /\ \A p \in CtlCallers :
       (ctl.procs[p].op = "changeModel" /\ ctl.procs[p].pc = "failed") =>
         LeftAsBefore(ctl.procs[p].before, ctl.procs[p].after)

====
